---- MODULE Spec2Model ----
(***************************************************************************)
(* A model of the Asterisk AMI client of src/src/telephony/asterisk.py:    *)
(* AsteriskAMIManager (connection, request/response correlation over the   *)
(* shared response queue, reader thread, call tracking).                   *)
(*                                                                         *)
(* Callers are asyncio tasks on one event loop: the code of a coroutine    *)
(* between two awaits is one atomic step.  The only await of the class is  *)
(* `await asyncio.sleep(0.1)` in _send_action, so every API operation that *)
(* sends is two steps: the part up to the sleep, and the part from the     *)
(* wake-up (queue.get and the caller's continuation).  Sleeping tasks wake *)
(* in the order of their deadlines, i.e. in the order they went to sleep.  *)
(* The reader (_event_listener) is an OS thread and interleaves freely.    *)
(*                                                                         *)
(* ActionIDs are the integers the code formats with str(); the server      *)
(* echoes them, so the integer stands for its decimal string.              *)
(***************************************************************************)
EXTENDS Integers, Sequences, FiniteSets, TLC

\* ---------------------------------------------------------------- bounds
MaxActionId == 4
MaxConnects == 2
MaxCalls == 1
MaxTime == 1
MaxCallbacks == 2
MaxQueue == 2
MaxTriggered == 2
MaxTurns == 1

\* ------------------------------------------------------------- constants
InitialActionId == 1

Tasks == {"t1", "t2"}

\* The event types callbacks are registered for.
CallbackTypes == {"Newchannel", "Hangup", "Dial", "Bridge", "Newstate"}

\* No text has been decoded.
NoDict == {<<"<none>">>}

\* A key that a dict does not hold, and Python's None.
NoField == "<absent>"
None == "None"
NoTime == 0 - 1

\* The kinds of the provider's lifecycle feed, the keys of call_callbacks the
\* provider looks up (lines 524, 531, 536).
FeedKinds == {"call_answered", "call_connected", "call_ended"}

\* --------------------------------------------- the conversation state machine
\* class ConversationState(Enum), state_machine.py lines 13-25: the members,
\* <<name, value>>.
ConversationState ==
    <<<<"INITIAL", "initial">>, <<"OPENING", "opening">>,
      <<"INTRODUCING", "introducing">>, <<"QUESTIONING", "questioning">>,
      <<"PRESENTING", "presenting">>,
      <<"HANDLING_OBJECTIONS", "handling_objections">>,
      <<"CLOSING", "closing">>, <<"SCHEDULING", "scheduling">>,
      <<"ENDING", "ending">>, <<"FAILED", "failed">>,
      <<"COMPLETED", "completed">>>>

\* A member of the Enum as an object: it is no string, and equal to no string
\* (the class does not derive from str).
Member(name) == "ConversationState." \o name

\* Machine(states=ConversationState): the machine registers one state per
\* member and knows it by the member's name.
StateNames == {ConversationState[i][1] : i \in 1..Len(ConversationState)}

\* The model's state attribute holds the member itself; NameOf is the name
\* the machine looks the state up by, ValueOf the member's value.
NameOf(member) == CHOOSE name \in StateNames : Member(name) = member
ValueOf(member) ==
    ConversationState[CHOOSE i \in 1..Len(ConversationState) :
                          Member(ConversationState[i][1]) = member][2]

\* ConversationContext(), lines 47-57: of a new context the model keeps the
\* history, the customer's emotion and the number of objections.
ConversationContext ==
    [conversation_history |-> <<>>, customer_emotion |-> None, objections_count |-> 0]

Transition(trigger, source, dest) ==
    [trigger |-> trigger, source |-> source, dest |-> dest]

\* self.transitions, lines 91-129, followed by the transitions
\* _register_state_callbacks adds, lines 146-155, in the order they are added
\* to the machine.  Sources and destinations are the strings of the source:
\* the members' values, or the wildcard.
Transitions ==
    <<Transition("start_call", "initial", "opening"),
      Transition("customer_answered", "opening", "introducing"),
      Transition("call_failed", "opening", "failed"),
      Transition("introduction_done", "introducing", "questioning"),
      Transition("customer_not_interested", "introducing", "handling_objections"),
      Transition("call_ended", "introducing", "ending"),
      Transition("interest_shown", "questioning", "presenting"),
      Transition("objection_raised", "questioning", "handling_objections"),
      Transition("ready_to_close", "questioning", "closing"),
      Transition("ready_to_close", "presenting", "closing"),
      Transition("objection_raised", "presenting", "handling_objections"),
      Transition("objection_handled", "handling_objections", "presenting"),
      Transition("customer_not_interested", "handling_objections", "ending"),
      Transition("ready_to_close", "handling_objections", "closing"),
      Transition("appointment_requested", "closing", "scheduling"),
      Transition("customer_not_interested", "closing", "ending"),
      Transition("appointment_scheduled", "scheduling", "completed"),
      Transition("call_failed", "scheduling", "ending"),
      Transition("call_failed", "*", "failed"),
      Transition("call_ended", "*", "ending"),
      Transition("enter_opening", "*", "opening"),
      Transition("enter_introducing", "*", "introducing"),
      Transition("enter_questioning", "*", "questioning"),
      Transition("enter_presenting", "*", "presenting"),
      Transition("enter_handling_objections", "*", "handling_objections"),
      Transition("enter_closing", "*", "closing"),
      Transition("enter_scheduling", "*", "scheduling"),
      Transition("enter_completed", "*", "completed"),
      Transition("enter_failed", "*", "failed"),
      Transition("enter_ending", "*", "ending")>>

\* The triggers the machine gives the model a method for.
Triggers == {Transitions[i].trigger : i \in 1..Len(Transitions)}

\* Machine.add_transition: the wildcard stands for the names of all registered
\* states; any other source is kept as it is written.
Sources(transition) ==
    IF transition.source = "*" THEN StateNames ELSE {transition.source}

\* The transitions of a trigger that leave the state of this name, by their
\* place in the table.
Leaving(name, trigger) ==
    {i \in 1..Len(Transitions) :
        Transitions[i].trigger = trigger /\ name \in Sources(Transitions[i])}

\* Calling a trigger method while the model's state is `member`: the machine
\* raises MachineError when the trigger has no transition from the state's
\* name; else it takes the first such transition and looks up the state named
\* by its destination, which raises ValueError when no state of that name is
\* registered.  The result is the state afterwards and the exception raised.
Fire(member, trigger) ==
    LET leaving == Leaving(NameOf(member), trigger)
        first == CHOOSE i \in leaving : \A j \in leaving : i <= j
        dest == Transitions[first].dest
    IN  IF leaving = {} THEN [state |-> member, raised |-> "MachineError"]
        ELSE IF dest \notin StateNames THEN [state |-> member, raised |-> "ValueError"]
        ELSE [state |-> Member(dest), raised |-> "none"]

VARIABLES
    connected,       \* self.connected
    authenticated,   \* self.authenticated
    running,         \* self.running
    action_id,       \* self.action_id
    socket,          \* self.socket: index into socks, 0 is None
    socks,           \* every socket object created so far, by its state
    threads,         \* every reader thread started so far
    response_queue,  \* self.response_queue
    wire,            \* actions written to a socket and not yet answered
    tasks,           \* the caller coroutines
    sleeping,        \* tasks inside asyncio.sleep(0.1), by deadline
    active_calls,    \* self.active_calls, in insertion order
    now,             \* the clock, in seconds
    event_callbacks, \* self.event_callbacks: event type -> list of callbacks
    invoked,         \* the callback calls of the last _handle_event, in order
    plain,           \* the action dict last encoded
    sent,            \* the text the encoding produced
    parsed,          \* the dict _process_message built from the last text
    call_callbacks,  \* the provider's self.call_callbacks: kind -> callback
    state,           \* the conversation state machine's self.state
    triggered,       \* the trigger calls made on the state machine so far
    context,         \* the state machine's self.context
    results,         \* the process_customer_input calls made so far
    served,          \* the bytes the server has written to the socket
    stream,          \* those of them no recv has returned yet
    buffer,          \* the listener's local `buffer`
    processed,       \* the texts passed to _process_message so far, in order
    welcome,         \* the bytes of the stream the banner read of connect() took
    connecting       \* where a connect() call is: "no", "connect" or "banner"

callbackVars == <<event_callbacks, invoked>>
codecVars == <<plain, sent, parsed>>
providerVars == <<call_callbacks>>
machineVars == <<state, triggered, context, results>>
streamVars == <<served, stream, buffer, processed, welcome>>
\* What every step but those of connect() leaves alone.
otherVars == <<connecting, providerVars, machineVars, streamVars>>

vars == <<connected, authenticated, running, action_id, socket, socks, threads,
          response_queue, wire, tasks, sleeping, active_calls, now,
          event_callbacks, invoked, plain, sent, parsed,
          call_callbacks, state, triggered, context, results, served,
          stream, buffer, processed, welcome, connecting>>

\* --------------------------------------------------------------- messages
\* A decoded message is the dict _process_message builds; a key the block
\* did not carry is NoField.
Message(ev, resp, aid, msg, ch, uid, sub, c1, c2, cause) ==
    [Event |-> ev, Response |-> resp, ActionID |-> aid, Message |-> msg,
     Channel |-> ch, Uniqueid |-> uid, SubEvent |-> sub,
     Channel1 |-> c1, Channel2 |-> c2, Cause |-> cause]

ResponseMsg(resp, aid, msg) ==
    Message(NoField, resp, aid, msg, NoField, NoField, NoField, NoField, NoField, NoField)

\* What _send_action returns when it returns None.
NoResponse == ResponseMsg(None, 0, NoField)

\* dict.get(key, default)
Get(d, key, default) == IF d[key] = NoField THEN default ELSE d[key]

\* `response and response.get("Response") == "Success"`
IsSuccess(response) == response # NoResponse /\ response.Response = "Success"

\* ------------------------------------------------------------------ tasks
NoRequest == [op |-> "none", call_id |-> "", phone_number |-> "", channel |-> ""]
NoResult == [success |-> FALSE, call_id |-> "", error |-> ""]
Request(op, cid, num, chan) ==
    [op |-> op, call_id |-> cid, phone_number |-> num, channel |-> chan]
Result(ok, cid, err) == [success |-> ok, call_id |-> cid, error |-> err]

\* A task that returned from an API operation: what it asked, the ActionID
\* its send stamped (0 when nothing was stamped), the way _send_action ended
\* ("unsent": nothing was written; "response": line 261; "mismatch": the
\* function fell off its end; "timeout": line 264), what _send_action
\* returned and what the operation returned.
Returned(req, aid, outcome, response, result) ==
    [pc |-> "idle", req |-> req, aid |-> aid, outcome |-> outcome, ret |-> response,
     result |-> result]

Asleep(req, aid) ==
    [pc |-> "sleep", req |-> req, aid |-> aid, outcome |-> "pending",
     ret |-> NoResponse, result |-> NoResult]

Init ==
    /\ connected = FALSE
    /\ authenticated = FALSE
    /\ running = FALSE
    /\ action_id = InitialActionId
    /\ socket = 0
    /\ socks = <<>>
    /\ threads = <<>>
    /\ response_queue = <<>>
    /\ wire = {}
    /\ tasks = [t \in Tasks |-> Returned(NoRequest, 0, "unsent", NoResponse, NoResult)]
    /\ sleeping = <<>>
    /\ active_calls = <<>>
    /\ now = 0
    /\ event_callbacks = [type \in CallbackTypes |-> <<>>]
    /\ invoked = <<>>
    /\ plain = <<>>
    /\ sent = <<>>
    /\ parsed = NoDict
    /\ call_callbacks = [kind \in FeedKinds |-> None]
    /\ state = Member("INITIAL")
    /\ triggered = <<>>
    /\ context = ConversationContext
    /\ results = <<>>
    /\ served = <<>>
    /\ stream = <<>>
    /\ buffer = <<>>
    /\ processed = <<>>
    /\ welcome = <<>>
    /\ connecting = "no"


\* ---------------------------------------------------------------- sockets
\* A socket object is "unconnected" (created; socket.connect() has not
\* returned yet, or has raised), "open" (connected to the server), "dead"
\* (the peer has closed or reset the connection) or "closed" (socket.close()
\* was called).

\* socket.send(): "sent" puts the bytes on the connection, "lost" is a send
\* the kernel accepts on a connection whose peer is gone, "raise" is OSError.
SendOutcomes(sock) ==
    CASE sock = "open" -> {"sent"}
      [] sock = "dead" -> {"lost", "raise"}
      [] OTHER -> {"raise"}

\* connect() has no await: from its call to its return it keeps the event
\* loop's thread, blocked in socket.connect() (line 56) and in the recv of
\* the banner (line 59) for up to 10 seconds each, while the reader threads
\* and the server go on.  No caller's step runs before it has returned.
\* initialize() has no await between its three register_event_callback calls
\* (lines 461-463) either: a task in "register" keeps the event loop's thread
\* until the last of them has returned.
LoopRuns == connecting = "no" /\ \A t \in Tasks : tasks[t].pc # "register"

\* The task whose initialize() is inside connect(); a connect() the
\* application calls by itself has none.
InConnect == {t \in Tasks : tasks[t].pc = "connect"}

\* What the caller of connect() does when connect() returns.  initialize(),
\* lines 452-458: it returns False when connect() did, else login() sends its
\* action (lines 76-89 and 238-255) and sleeps, or returns False when the
\* send raises.
ConnectReturns(ok) ==
    IF InConnect = {}
    THEN UNCHANGED <<tasks, action_id, wire, sleeping>>
    ELSE LET t == CHOOSE u \in InConnect : TRUE
         IN  IF ~ok
             THEN /\ tasks' = [tasks EXCEPT ![t] =
                                 Returned(tasks[t].req, 0, "unsent", NoResponse,
                                          Result(FALSE, "", ""))]
                  /\ UNCHANGED <<action_id, wire, sleeping>>
             ELSE /\ action_id' = action_id + 1
                  /\ \E o \in SendOutcomes(socks[socket]) :
                       IF o = "raise"
                       THEN /\ tasks' = [tasks EXCEPT ![t] =
                                           Returned(tasks[t].req, action_id + 1, "unsent",
                                                    NoResponse, Result(FALSE, "", ""))]
                            /\ UNCHANGED <<wire, sleeping>>
                       ELSE /\ wire' = wire \cup {[Action |-> "Login",
                                                   ActionID |-> action_id + 1,
                                                   sock |-> socket,
                                                   auth |-> authenticated]}
                            /\ sleeping' = Append(sleeping, t)
                            /\ tasks' = [tasks EXCEPT ![t] =
                                           Asleep(tasks[t].req, action_id + 1)]

\* connect(), lines 52-55: the new socket object is assigned to self.socket
\* before it is connected.
ConnectBegin ==
    /\ LoopRuns
    /\ Len(socks) < MaxConnects
    /\ socket' = Len(socks) + 1
    /\ socks' = Append(socks, "unconnected")
    /\ connecting' = "connect"
    /\ UNCHANGED <<connected, authenticated, running, action_id, threads,
                   response_queue, wire, tasks, sleeping, active_calls, now>>
    /\ UNCHANGED <<callbackVars, codecVars, providerVars, machineVars, streamVars>>

\* connect(), line 56: socket.connect() returns ("ok"), or it raises
\* ("refused") and connect() returns False (lines 72-74).
ConnectSocket(outcome) ==
    /\ connecting = "connect"
    /\ IF outcome = "ok"
       THEN /\ socks' = [socks EXCEPT ![socket] = "open"]
            /\ connecting' = "banner"
            /\ UNCHANGED <<tasks, action_id, wire, sleeping>>
       ELSE /\ connecting' = "no"
            /\ ConnectReturns(FALSE)
            /\ UNCHANGED socks
    /\ UNCHANGED <<connected, authenticated, running, socket, threads,
                   response_queue, active_calls, now>>
    /\ UNCHANGED <<callbackVars, codecVars, providerVars, machineVars, streamVars>>

\* The two bytes of a two-byte UTF-8 character and the character they
\* encode.  Every other piece of a text is ASCII: the same bytes and
\* characters.
LeadByte == "<c3>"
ContinuationByte == "<a9>"
TwoByteCharacter == "<U+00E9>"

\* Whether bytes.decode('utf-8') of lines 59 and 277 returns: it raises
\* UnicodeDecodeError on a lead byte without its continuation byte and on a
\* continuation byte without its lead byte.
Decodable(data) ==
    \A q \in 1..Len(data) :
        /\ data[q] = LeadByte => q < Len(data) /\ data[q + 1] = ContinuationByte
        /\ data[q] = ContinuationByte => q > 1 /\ data[q - 1] = LeadByte

\* bytes.decode('utf-8') of bytes it can decode.
RECURSIVE DecodeUtf8(_)
DecodeUtf8(data) ==
    IF data = <<>> THEN <<>>
    ELSE IF Head(data) = LeadByte
         THEN <<TwoByteCharacter>> \o DecodeUtf8(Tail(Tail(data)))
         ELSE <<Head(data)>> \o DecodeUtf8(Tail(data))

\* connect(), lines 59-74.  recv(1024) returns the banner and, behind it, the
\* first n bytes of what the server has written since, as many of them as
\* have arrived (every stream here is shorter than 1024 bytes; the empty read
\* of a closed peer returns too): those bytes are gone from the connection,
\* and nothing reads `welcome` again.  When they decode ("ok"), the client is
\* connected and running and the reader thread is started.  When they do not
\* decode, or when the recv times out or raises and takes no byte ("raise"),
\* connect() returns False and leaves self.socket the connected socket.
ConnectBanner(outcome) ==
    /\ connecting = "banner"
    /\ connecting' = "no"
    /\ \E n \in 0..Len(stream) :
         LET data == SubSeq(stream, 1, n)
         IN  IF outcome = "ok"
             THEN /\ stream' = SubSeq(stream, n + 1, Len(stream))
                  /\ welcome' = data
                  /\ IF Decodable(data)
                     THEN /\ connected' = TRUE
                          /\ running' = TRUE
                          /\ threads' = Append(threads, [pc |-> "loop", sock |-> 0])
                          /\ ConnectReturns(TRUE)
                     ELSE /\ ConnectReturns(FALSE)
                          /\ UNCHANGED <<connected, running, threads>>
             ELSE /\ n = 0
                  /\ ConnectReturns(FALSE)
                  /\ UNCHANGED <<stream, welcome, connected, running, threads>>
    /\ UNCHANGED <<authenticated, socket, socks, response_queue, active_calls, now>>
    /\ UNCHANGED <<callbackVars, codecVars, providerVars, machineVars, served,
                   buffer, processed>>

\* The environment: the server closes or resets connection k.
PeerClose(k) ==
    /\ k \in 1..Len(socks)
    /\ socks[k] = "open"
    /\ socks' = [socks EXCEPT ![k] = "dead"]
    /\ UNCHANGED <<connected, authenticated, running, action_id, socket, threads,
                   response_queue, wire, tasks, sleeping, active_calls, now>>
    /\ UNCHANGED <<callbackVars, codecVars, otherVars>>

\* The environment: the clock advances.
Tick ==
    /\ now < MaxTime
    /\ now' = now + 1
    /\ UNCHANGED <<connected, authenticated, running, action_id, socket, socks,
                   threads, response_queue, wire, tasks, sleeping, active_calls>>
    /\ UNCHANGED <<callbackVars, codecVars, otherVars>>

\* ------------------------------------------------- the callers' continuations
\* What each API operation does with the value _send_action returned.  Each
\* sets tasks, authenticated, active_calls, connected and socks.

\* login(), lines 91-97
LoginReturn(t, req, aid, outcome, response) ==
    /\ authenticated' = IF IsSuccess(response) THEN TRUE ELSE authenticated
    /\ tasks' = [tasks EXCEPT ![t] =
                   Returned(req, aid, outcome, response, Result(IsSuccess(response), "", ""))]
    /\ UNCHANGED <<active_calls, connected, socks>>

\* IndexOf that falls back on the first record for a key the table lacks.
IndexOrFirst(calls, call_id) ==
    IF \E i \in 1..Len(calls) : calls[i].call_id = call_id
    THEN CHOOSE i \in 1..Len(calls) : calls[i].call_id = call_id
    ELSE IF Len(calls) > 0 THEN 1 ELSE 0

\* The index of call_id in the table, 0 when it is not a key.
IndexOf(calls, call_id) ==
    IF \E i \in 1..Len(calls) : calls[i].call_id = call_id
    THEN CHOOSE i \in 1..Len(calls) : calls[i].call_id = call_id
    ELSE 0

\* active_calls[call_id] = record: a new key goes last, a key the dict has
\* keeps its place.
Put(calls, record) ==
    IF IndexOf(calls, record.call_id) = 0
    THEN Append(calls, record)
    ELSE [calls EXCEPT ![IndexOf(calls, record.call_id)] = record]

\* The record originate_call stores, lines 146-152.
NewCall(req, time) ==
    [call_id |-> req.call_id, phone_number |-> req.phone_number,
     channel |-> req.channel, start_time |-> time, status |-> "dialing",
     unique_id |-> None, answer_time |-> NoTime, bridge_time |-> NoTime,
     end_time |-> NoTime, hangup_cause |-> NoField]

\* originate_call() storing the call before it looks at the response.
OriginateStoresFirst(t, req, aid, outcome, response) ==
    /\ active_calls' = Put(active_calls, NewCall(req, now))
    /\ tasks' = [tasks EXCEPT ![t] =
                   Returned(req, aid, outcome, response,
                     IF IsSuccess(response)
                     THEN Result(TRUE, req.call_id, "")
                     ELSE Result(FALSE, "",
                            IF response = NoResponse THEN "No response"
                            ELSE Get(response, "Message", "Unknown error")))]
    /\ UNCHANGED <<authenticated, connected, socks>>

\* originate_call(), lines 144-166
OriginateReturn(t, req, aid, outcome, response) ==
    /\ active_calls' = IF IsSuccess(response)
                       THEN Put(active_calls, NewCall(req, now))
                       ELSE active_calls
    /\ tasks' = [tasks EXCEPT ![t] =
                   Returned(req, aid, outcome, response,
                     IF IsSuccess(response)
                     THEN Result(TRUE, req.call_id, "")
                     ELSE Result(FALSE, "",
                            IF response = NoResponse THEN "No response"
                            ELSE Get(response, "Message", "Unknown error")))]
    /\ UNCHANGED <<authenticated, connected, socks>>

\* The update hangup_call makes on a Success response, lines 195-197.
MarkHungUp(calls, call_id, time) ==
    IF IndexOf(calls, call_id) = 0
    THEN calls
    ELSE [calls EXCEPT ![IndexOf(calls, call_id)] =
            [@ EXCEPT !.status = "hung_up", !.end_time = time]]

\* hangup_call(), lines 193-203
HangupReturn(t, req, aid, outcome, response) ==
    /\ active_calls' = IF IsSuccess(response)
                       THEN MarkHungUp(active_calls, req.call_id, now)
                       ELSE active_calls
    /\ tasks' = [tasks EXCEPT ![t] =
                   Returned(req, aid, outcome, response, Result(IsSuccess(response), "", ""))]
    /\ UNCHANGED <<authenticated, connected, socks>>

\* list_active_calls(), line 224: the response is not looked at.
StatusReturn(t, req, aid, outcome, response) ==
    /\ tasks' = [tasks EXCEPT ![t] =
                   Returned(req, aid, outcome, response, Result(TRUE, "", ""))]
    /\ UNCHANGED <<authenticated, active_calls, connected, socks>>

\* disconnect(), lines 411-418
DisconnectReturn(t, req, aid, outcome, response) ==
    /\ socks' = IF socket # 0 THEN [socks EXCEPT ![socket] = "closed"] ELSE socks
    /\ connected' = FALSE
    /\ authenticated' = FALSE
    /\ tasks' = [tasks EXCEPT ![t] =
                   Returned(req, aid, outcome, response, Result(TRUE, "", ""))]
    /\ UNCHANGED active_calls

\* A caller of _send_action itself: it has what _send_action returned.
SendReturn(t, req, aid, outcome, response) ==
    /\ tasks' = [tasks EXCEPT ![t] =
                   Returned(req, aid, outcome, response, NoResult)]
    /\ UNCHANGED <<authenticated, active_calls, connected, socks>>

\* The continuation of the operation `req.op`.
Return(t, req, aid, outcome, response) ==
    CASE req.op = "login" -> LoginReturn(t, req, aid, outcome, response)
      [] req.op = "originate" -> OriginateReturn(t, req, aid, outcome, response)
      [] req.op = "hangup" -> HangupReturn(t, req, aid, outcome, response)
      [] req.op = "status" -> StatusReturn(t, req, aid, outcome, response)
      [] req.op = "disconnect" -> DisconnectReturn(t, req, aid, outcome, response)
      [] req.op = "send" -> SendReturn(t, req, aid, outcome, response)


\* ------------------------------------------------------------ _send_action
\* An action on the wire: its type, the ActionID stamped into it, the socket
\* it was written to and whether the client was authenticated at that time.
Written(action, aid) ==
    [Action |-> action, ActionID |-> aid, sock |-> socket, auth |-> authenticated]

\* The name of the AMI action each operation sends.
ActionOf(op) ==
    CASE op = "login" -> "Login"
      [] op = "originate" -> "Originate"
      [] op = "hangup" -> "Hangup"
      [] op = "status" -> "Status"
      [] op = "disconnect" -> "Logoff"

\* _send_action without `self.action_id += 1` (line 241): every action is
\* stamped with the ActionID the client already has.
SendActionReusesId(t, req) ==
    IF ~connected
    THEN /\ UNCHANGED <<action_id, wire, sleeping>>
         /\ Return(t, req, 0, "unsent", NoResponse)
    ELSE /\ action_id' = action_id
         /\ \E o \in SendOutcomes(socks[socket]) :
              IF o = "raise"
              THEN /\ UNCHANGED <<wire, sleeping>>
                   /\ Return(t, req, action_id, "unsent", NoResponse)
              ELSE /\ wire' = wire \cup {Written(ActionOf(req.op), action_id)}
                   /\ sleeping' = Append(sleeping, t)
                   /\ tasks' = [tasks EXCEPT ![t] = Asleep(req, action_id)]
                   /\ UNCHANGED <<authenticated, active_calls, connected, socks>>

\* _send_action up to `await asyncio.sleep(0.1)`, lines 238-255: returns None
\* when not connected or when the send raises (the caller then continues at
\* once), else leaves the task asleep.
SendAction(t, req) ==
    IF ~connected
    THEN /\ UNCHANGED <<action_id, wire, sleeping>>
         /\ Return(t, req, 0, "unsent", NoResponse)
    ELSE /\ action_id' = action_id + 1
         /\ \E o \in SendOutcomes(socks[socket]) :
              IF o = "raise"
              THEN /\ UNCHANGED <<wire, sleeping>>
                   /\ Return(t, req, action_id + 1, "unsent", NoResponse)
              ELSE /\ wire' = wire \cup {Written(ActionOf(req.op), action_id + 1)}
                   /\ sleeping' = Append(sleeping, t)
                   /\ tasks' = [tasks EXCEPT ![t] = Asleep(req, action_id + 1)]
                   /\ UNCHANGED <<authenticated, active_calls, connected, socks>>

\* Answer without the comparison of line 260: whatever the queue hands out.
AnswerUnchecked(queue, aid) ==
    IF queue = <<>> THEN NoResponse ELSE Head(queue)

\* Lines 259-264: what _send_action returns for the head of the queue:
\* the response when its ActionID is the one stamped, None otherwise
\* (the function falls off its end), None on queue.Empty.
Answer(queue, aid) ==
    IF queue = <<>> THEN NoResponse
    ELSE IF Head(queue).ActionID = aid THEN Head(queue)
    ELSE NoResponse

\* The way _send_action ends for the head of the queue.
Outcome(queue, aid) ==
    IF queue = <<>> THEN "timeout"
    ELSE IF Head(queue).ActionID = aid THEN "response"
    ELSE "mismatch"

\* response_queue.get(timeout=5) takes the head, whatever its ActionID.
AfterGet(queue) == IF queue = <<>> THEN queue ELSE Tail(queue)

\* _send_action from the wake-up, and the continuation of its caller.  The
\* get finds an empty queue only when no response came for 5 seconds.
Resume(t) ==
    /\ LoopRuns
    /\ sleeping # <<>>
    /\ t = Head(sleeping)
    /\ sleeping' = Tail(sleeping)
    /\ response_queue' = AfterGet(response_queue)
    /\ Return(t, tasks[t].req, tasks[t].aid, Outcome(response_queue, tasks[t].aid),
              Answer(response_queue, tasks[t].aid))
    /\ UNCHANGED <<running, action_id, socket, threads, wire, now>>
    /\ UNCHANGED <<callbackVars, codecVars, otherVars>>

\* A call ID made of the clock second alone.
CallIdOfSecond(time, aid) == "call_" \o ToString(time)

\* ------------------------------------------------------------ the public API
\* The call ID originate_call builds, line 125.
CallId(time, aid) == "call_" \o ToString(time) \o "_" \o ToString(aid)

\* `channel`/`phone_number`, lines 130 and 148.
ChannelName(tech, number) == tech \o "/" \o number

Idle(t) == tasks[t].pc = "idle"

\* Originate requests whose record is not stored yet.
Originating == {t \in Tasks : tasks[t].pc = "sleep" /\ tasks[t].req.op = "originate"}

\* The reader threads that have not left their loop.
Live == {i \in 1..Len(threads) : threads[i].pc \notin {"stopped", "eof", "error"}}

\* The callers asleep in an operation that writes the call table when it
\* goes on with a Success response, originate_call storing a record (lines
\* 144-152) and hangup_call rewriting one (lines 193-197), and that can go on
\* with one while a reader thread handles an event: the response is queued,
\* or a second reader thread is there to queue it.
Writers ==
    {t \in Tasks :
        /\ tasks[t].pc = "sleep"
        /\ tasks[t].req.op \in {"originate", "hangup"}
        /\ \/ \E k \in 1..Len(response_queue) :
                 /\ response_queue[k].ActionID = tasks[t].aid
                 /\ response_queue[k].Response = "Success"
           \/ Cardinality(Live) > 1}

\* The table and the originations under way hold fewer than n calls.
Room(n) == Len(active_calls) + Cardinality(Originating) < n

\* login(), lines 76-89
Login(t) ==
    /\ LoopRuns
    /\ Idle(t)
    /\ action_id < MaxActionId
    /\ IF ~connected
       THEN /\ tasks' = [tasks EXCEPT ![t] =
                  Returned(Request("login", "", "", ""), 0, "unsent", NoResponse,
                           Result(FALSE, "", ""))]
            /\ UNCHANGED <<action_id, wire, sleeping, authenticated, active_calls,
                           connected, socks>>
       ELSE SendAction(t, Request("login", "", "", ""))
    /\ UNCHANGED <<running, socket, threads, response_queue, now>>
    /\ UNCHANGED <<callbackVars, codecVars, otherVars>>

\* originate_call(), lines 120-142
OriginateCall(t, number, tech) ==
    /\ LoopRuns
    /\ Idle(t)
    /\ action_id < MaxActionId
    /\ IF ~authenticated
       THEN /\ tasks' = [tasks EXCEPT ![t] =
                  Returned(Request("originate", "", number, ChannelName(tech, number)),
                           0, "unsent", NoResponse, Result(FALSE, "", "Not authenticated"))]
            /\ UNCHANGED <<action_id, wire, sleeping, authenticated, active_calls,
                           connected, socks>>
       ELSE SendAction(t, Request("originate", CallId(now, action_id), number,
                                  ChannelName(tech, number)))
    /\ UNCHANGED <<running, socket, threads, response_queue, now>>
    /\ UNCHANGED <<callbackVars, codecVars, otherVars>>

\* hangup_call(), lines 174-191
HangupCall(t, call_id) ==
    /\ LoopRuns
    /\ Idle(t)
    /\ action_id < MaxActionId
    /\ IF IndexOf(active_calls, call_id) = 0
       THEN /\ tasks' = [tasks EXCEPT ![t] =
                  Returned(Request("hangup", call_id, "", ""), 0, "unsent", NoResponse,
                           Result(FALSE, "", ""))]
            /\ UNCHANGED <<action_id, wire, sleeping, authenticated, active_calls,
                           connected, socks>>
       ELSE SendAction(t, Request("hangup", call_id, "",
                                  active_calls[IndexOf(active_calls, call_id)].channel))
    /\ UNCHANGED <<running, socket, threads, response_queue, now>>
    /\ UNCHANGED <<callbackVars, codecVars, otherVars>>

\* list_active_calls(), lines 215-221
ListActiveCalls(t) ==
    /\ LoopRuns
    /\ Idle(t)
    /\ action_id < MaxActionId
    /\ SendAction(t, Request("status", "", "", ""))
    /\ UNCHANGED <<running, socket, threads, response_queue, now>>
    /\ UNCHANGED <<callbackVars, codecVars, otherVars>>

\* disconnect(), lines 399-409
Disconnect(t) ==
    /\ LoopRuns
    /\ Idle(t)
    /\ authenticated => action_id < MaxActionId
    /\ running' = FALSE
    /\ IF authenticated
       THEN SendAction(t, Request("disconnect", "", "", ""))
       ELSE /\ UNCHANGED <<action_id, wire, sleeping>>
            /\ DisconnectReturn(t, Request("disconnect", "", "", ""), 0, "unsent", NoResponse)
    /\ UNCHANGED <<socket, threads, response_queue, now>>
    /\ UNCHANGED <<callbackVars, codecVars, otherVars>>


\* ------------------------------------------------------------ call tracking
\* FirstMatch without the comparison of the channel: the first record.
FirstRecord(calls, channels) == IF Len(calls) > 0 THEN 1 ELSE 0

\* `for call_id, call_info in self.active_calls.items(): if ...: ...; break`:
\* the first record, in insertion order, whose channel is one of `channels`;
\* 0 when there is none.
FirstMatch(calls, channels) ==
    IF \E i \in 1..Len(calls) : calls[i].channel \in channels
    THEN CHOOSE i \in 1..Len(calls) :
            /\ calls[i].channel \in channels
            /\ \A j \in 1..(i - 1) : calls[j].channel \notin channels
    ELSE 0

\* _handle_new_channel without the assignment of the status: only the
\* Uniqueid is recorded.
NewChannelKeepsStatus(calls, event) ==
    LET i == FirstMatch(calls, {Get(event, "Channel", "")})
    IN  IF i = 0 THEN calls
        ELSE [calls EXCEPT ![i] = [@ EXCEPT !.unique_id = Get(event, "Uniqueid", "")]]

\* _handle_new_channel, lines 341-352
HandleNewChannel(calls, event) ==
    LET i == FirstMatch(calls, {Get(event, "Channel", "")})
    IN  IF i = 0 THEN calls
        ELSE [calls EXCEPT ![i] = [@ EXCEPT !.unique_id = Get(event, "Uniqueid", ""),
                                            !.status = "ringing"]]

\* _handle_hangup without the assignment of the hangup cause.
HangupDropsCause(calls, event, time) ==
    LET i == FirstMatch(calls, {Get(event, "Channel", "")})
    IN  IF i = 0 THEN calls
        ELSE [calls EXCEPT ![i] = [@ EXCEPT !.status = "ended",
                                            !.end_time = time]]

\* _handle_hangup, lines 354-366
HandleHangup(calls, event, time) ==
    LET i == FirstMatch(calls, {Get(event, "Channel", "")})
    IN  IF i = 0 THEN calls
        ELSE [calls EXCEPT ![i] = [@ EXCEPT !.status = "ended",
                                            !.end_time = time,
                                            !.hangup_cause = Get(event, "Cause", "")]]

\* _handle_dial_event without the test of the SubEvent: every Dial event is
\* taken for the begin of dialing.
DialAlwaysBegins(calls, event, time) ==
    LET i == FirstMatch(calls, {Get(event, "Channel", "")})
    IN  IF i = 0 THEN calls
        ELSE [calls EXCEPT ![i] = [@ EXCEPT !.status = "dialing"]]

\* _handle_dial_event, lines 368-382
HandleDialEvent(calls, event, time) ==
    LET i == FirstMatch(calls, {Get(event, "Channel", "")})
        subevent == Get(event, "SubEvent", "")
    IN  IF i = 0 THEN calls
        ELSE IF subevent = "Begin"
             THEN [calls EXCEPT ![i] = [@ EXCEPT !.status = "dialing"]]
        ELSE IF subevent = "Answer"
             THEN [calls EXCEPT ![i] = [@ EXCEPT !.status = "answered",
                                                 !.answer_time = time]]
        ELSE calls

\* A bridge handler that also moves the record to the other channel of the
\* bridge.
BridgeTakesChannel(calls, event, time) ==
    LET i == FirstMatch(calls, {Get(event, "Channel1", ""), Get(event, "Channel2", "")})
    IN  IF i = 0 THEN calls
        ELSE [calls EXCEPT ![i] = [@ EXCEPT !.status = "connected",
                                            !.bridge_time = time,
                                            !.channel = Get(event, "Channel2", "")]]

\* A bridge handler that takes a Bridge event only for a call that was
\* answered.
BridgeNeedsAnswer(calls, event, time) ==
    LET i == FirstMatch(calls, {Get(event, "Channel1", ""), Get(event, "Channel2", "")})
    IN  IF i = 0 \/ calls[i].status # "answered" THEN calls
        ELSE [calls EXCEPT ![i] = [@ EXCEPT !.status = "connected",
                                            !.bridge_time = time]]

\* _handle_bridge_event, lines 384-395
HandleBridgeEvent(calls, event, time) ==
    LET i == FirstMatch(calls, {Get(event, "Channel1", ""), Get(event, "Channel2", "")})
    IN  IF i = 0 THEN calls
        ELSE [calls EXCEPT ![i] = [@ EXCEPT !.status = "connected",
                                            !.bridge_time = time]]

\* _handle_event, lines 317-328: the call table after the event.  The
\* callback loop of lines 331-336 is Invoke, below.
HandleEvent(calls, event, time) ==
    LET event_type == Get(event, "Event", "")
    IN  CASE event_type = "Newchannel" -> HandleNewChannel(calls, event)
          [] event_type = "Hangup" -> HandleHangup(calls, event, time)
          [] event_type = "Dial" -> HandleDialEvent(calls, event, time)
          [] event_type = "Bridge" -> HandleBridgeEvent(calls, event, time)
          [] OTHER -> calls

\* ----------------------------------------------------------------- codec
\* A text is a sequence of pieces.  The characters the code looks at (colon
\* and every character str.strip() takes off) are pieces of their own; a run
\* of other characters is one piece (a word), which no operation below looks
\* inside.
CR == "\r"
LF == "\n"
CRLF == <<CR, LF>>
Separator == <<":", " ">>
BlockEnd == <<CR, LF, CR, LF>>
\* The characters str.strip() takes off, those of str.isspace(): space, CR,
\* LF, TAB, FF; written as the characters themselves VT (U+000B), FS, GS,
\* RS, US (U+001C to U+001F), NEL (U+0085), NBSP (U+00A0) and the Ogham space
\* mark (U+1680); and the sixteen space characters that no string of a
\* module can hold, each a piece written as its code point, as the bytes
\* and the character of the reads are (LeadByte, TwoByteCharacter).
Whitespace ==
    {" ", CR, LF, "\t", "\f",
     "", "", "", "", "", "", " ", " ",
     "<U+2000>", "<U+2001>", "<U+2002>", "<U+2003>", "<U+2004>", "<U+2005>",
     "<U+2006>", "<U+2007>", "<U+2008>", "<U+2009>", "<U+200A>",
     "<U+2028>", "<U+2029>", "<U+202F>", "<U+205F>", "<U+3000>"}

\* str.find: the first position where sep occurs in text, 0 when nowhere.
Find(text, sep) ==
    LET hits == {q \in 1..(Len(text) - Len(sep) + 1) :
                    SubSeq(text, q, q + Len(sep) - 1) = sep}
    IN  IF hits = {} THEN 0 ELSE CHOOSE q \in hits : \A r \in hits : q <= r

\* `sep in text`
Contains(text, sep) == Find(text, sep) # 0

\* text.split(sep, 1) of a text that contains sep.
SplitOnce(text, sep) ==
    <<SubSeq(text, 1, Find(text, sep) - 1),
      SubSeq(text, Find(text, sep) + Len(sep), Len(text))>>

\* text.split(sep)
RECURSIVE Split(_, _)
Split(text, sep) ==
    IF ~Contains(text, sep) THEN <<text>>
    ELSE <<SplitOnce(text, sep)[1]>> \o Split(SplitOnce(text, sep)[2], sep)

\* text.strip()
RECURSIVE Strip(_)
Strip(text) ==
    IF text = <<>> THEN text
    ELSE IF Head(text) \in Whitespace THEN Strip(Tail(text))
    ELSE IF text[Len(text)] \in Whitespace THEN Strip(SubSeq(text, 1, Len(text) - 1))
    ELSE text

\* The encoding of an action, lines 245-248.  `fields` is action.items(): the
\* <<key, value>> pairs of the dict in insertion order.
RECURSIVE Encode(_)
Encode(fields) ==
    IF fields = <<>> THEN CRLF
    ELSE Head(fields)[1] \o Separator \o Head(fields)[2] \o CRLF \o Encode(Tail(fields))

\* A dict is the set of its <<key, value>> pairs; d[key] = value.
DictPut(d, key, value) == {kv \in d : kv[1] # key} \cup {<<key, value>>}

\* The dict with the given items.
RECURSIVE ToDict(_)
ToDict(fields) ==
    IF fields = <<>> THEN {}
    ELSE LET kv == fields[Len(fields)]
         IN  DictPut(ToDict(SubSeq(fields, 1, Len(fields) - 1)), kv[1], kv[2])

\* The loop of lines 302-305 over the first n lines.
RECURSIVE DecodeLines(_, _)
DecodeLines(lines, n) ==
    IF n = 0 THEN {}
    ELSE IF Contains(lines[n], Separator)
         THEN DictPut(DecodeLines(lines, n - 1),
                      SplitOnce(lines[n], Separator)[1],
                      SplitOnce(lines[n], Separator)[2])
         ELSE DecodeLines(lines, n - 1)

\* The dict _process_message builds from a block, lines 299-305.
Decode(message) ==
    LET lines == Split(Strip(message), CRLF)
    IN  DecodeLines(lines, Len(lines))

\* The blocks the reader's inner loop cuts out of its buffer, lines 284-286.
RECURSIVE Blocks(_)
Blocks(text) ==
    IF ~Contains(text, BlockEnd) THEN <<>>
    ELSE <<SplitOnce(text, BlockEnd)[1]>> \o Blocks(SplitOnce(text, BlockEnd)[2])

\* str of a text.
RECURSIVE Join(_)
Join(text) == IF text = <<>> THEN "" ELSE Head(text) \o Join(Tail(text))

\* data.get(key) as a string, NoField when the dict lacks the key.
Lookup(d, key) ==
    IF \E kv \in d : Join(kv[1]) = key
    THEN Join((CHOOSE kv \in d : Join(kv[1]) = key)[2])
    ELSE NoField

\* action["ActionID"] = str(aid), line 243, on the items of the dict: a key
\* the dict has keeps its place, a new key goes last.
Stamped(fields, aid) ==
    LET item == <<<<"ActionID">>, <<ToString(aid)>>>>
    IN  IF \E k \in 1..Len(fields) : fields[k][1] = item[1]
        THEN [k \in 1..Len(fields) |->
                 IF fields[k][1] = item[1] THEN item ELSE fields[k]]
        ELSE Append(fields, item)

\* _send_action called with the dict whose items are `fields`, lines 238-255:
\* it returns None when the client is not connected; else it takes the next
\* ActionID and stamps it into the caller's dict, formats the dict into a
\* text and sends the text, and sleeps; a send that raises makes it return
\* None.
EncodeAction(t, fields) ==
    /\ LoopRuns
    /\ Idle(t)
    /\ action_id < MaxActionId
    /\ LET req == Request("send", "", "", "")
       IN  IF ~connected
           THEN /\ UNCHANGED <<action_id, wire, sleeping, codecVars>>
                /\ Return(t, req, 0, "unsent", NoResponse)
           ELSE /\ action_id' = action_id + 1
                /\ plain' = Stamped(fields, action_id + 1)
                /\ \E o \in SendOutcomes(socks[socket]) :
                     IF o = "raise"
                     THEN /\ UNCHANGED <<wire, sleeping, sent, parsed>>
                          /\ Return(t, req, action_id + 1, "unsent", NoResponse)
                     ELSE /\ sent' = Encode(plain')
                          /\ parsed' = NoDict
                          /\ wire' = wire \cup {Written(Lookup(ToDict(plain'), "Action"),
                                                        action_id + 1)}
                          /\ sleeping' = Append(sleeping, t)
                          /\ tasks' = [tasks EXCEPT ![t] = Asleep(req, action_id + 1)]
                          /\ UNCHANGED <<authenticated, active_calls, connected, socks>>
    /\ UNCHANGED <<running, socket, threads, response_queue, now, callbackVars,
                   otherVars>>

\* The text comes in as one read, and the first block of it is decoded
\* (lines 284-286 and 299-305).
DecodeSent ==
    /\ sent # <<>>
    /\ parsed = NoDict
    /\ Blocks(sent) # <<>>
    /\ parsed' = Decode(Blocks(sent)[1])
    /\ UNCHANGED <<connected, authenticated, running, action_id, socket, socks,
                   threads, response_queue, wire, tasks, sleeping, active_calls,
                   now, callbackVars, plain, sent, otherVars>>

\* ------------------------------------------------------------- callbacks
\* A callback is a function of the application; all the manager sees of it is
\* whether it returns or raises.
Callbacks == {"returns", "raises"}
Raises(callback) == callback = "raises"

\* self.event_callbacks.get(event_type, []), line 331.
Registered(callbacks, type) ==
    IF type \in DOMAIN callbacks THEN callbacks[type] ELSE <<>>

\* How many callbacks are registered in all.
RECURSIVE CountCallbacks(_, _)
CountCallbacks(callbacks, types) ==
    IF types = {} THEN 0
    ELSE LET type == CHOOSE x \in types : TRUE
         IN  Len(callbacks[type]) + CountCallbacks(callbacks, types \ {type})

\* register_event_callback, lines 230-234.
RegisterEventCallback(type, callback) ==
    /\ LoopRuns
    /\ CountCallbacks(event_callbacks, DOMAIN event_callbacks) < MaxCallbacks
    /\ event_callbacks' = [event_callbacks EXCEPT ![type] = Append(@, callback)]
    /\ UNCHANGED <<connected, authenticated, running, action_id, socket, socks,
                   threads, response_queue, wire, tasks, sleeping, active_calls,
                   now, invoked, codecVars, otherVars>>

\* The first n callbacks of the list, each called with the event while the
\* table is `calls`.
Calls(callbacks, n, event, calls) ==
    [k \in 1..n |-> [callback |-> callbacks[k], event |-> event, seen |-> calls,
                     raised |-> Raises(callbacks[k])]]

\* The callback loop with one try around the whole loop: the first callback
\* that raises ends it.
InvokeUntilRaise(callbacks, event, calls) ==
    IF \E k \in 1..Len(callbacks) : Raises(callbacks[k])
    THEN Calls(callbacks,
               CHOOSE k \in 1..Len(callbacks) :
                   /\ Raises(callbacks[k])
                   /\ \A j \in 1..(k - 1) : ~Raises(callbacks[j]),
               event, calls)
    ELSE Calls(callbacks, Len(callbacks), event, calls)

\* The callback loop of _handle_event, lines 331-336: every callback is
\* called inside its own try, so one that raises does not end the loop.
Invoke(callbacks, event, calls) ==
    Calls(callbacks, Len(callbacks), event, calls)

\* --------------------------------------------------------- the reader thread
\* A reader thread is at the head of its loop ("loop"), inside
\* self.socket.recv on the socket it found in self.socket ("recv"), inside the
\* inner loop with further complete blocks in its buffer ("buffered"), inside
\* a handler's loop over the call table ("handling"), between a handler and
\* the end of the callback loop ("callbacks"), or has left the loop: "stopped"
\* by the loop condition, "eof" by an empty read, "error" by an exception.
\* From a read on it keeps the messages of the blocks it has not processed
\* yet (`held`) and where it is after the last of them (`then`).

\* `while self.running and self.connected:` and the read of self.socket,
\* lines 274-277.
Enter ==
    IF running /\ connected
    THEN [pc |-> "recv", sock |-> socket]
    ELSE [pc |-> "stopped", sock |-> 0]

ReaderLoop(i) ==
    /\ i \in 1..Len(threads)
    /\ threads[i].pc = "loop"
    /\ threads' = [threads EXCEPT ![i] = Enter]
    /\ UNCHANGED <<connected, authenticated, running, action_id, socket, socks,
                   response_queue, wire, tasks, sleeping, active_calls, now>>
    /\ UNCHANGED <<callbackVars, codecVars, otherVars>>

\* What a thread has in hand after a read of socket `sock`.
Job(sock, held, then) == [sock |-> sock, held |-> held, then |-> then]

\* Where the thread is after a block, lines 284-286 and 274: at the next
\* block when its buffer holds one, whatever has become of the socket; else
\* at the head of the outer loop ("loop"), or past the loop condition and in
\* recv again when it went on without a pause ("recv").
AfterBlock(job) ==
    IF job.held # <<>>
    THEN [pc |-> "buffered", sock |-> job.sock, held |-> job.held, then |-> job.then]
    ELSE IF job.then = "recv" THEN Enter
    ELSE [pc |-> "loop", sock |-> 0]

\* _process_message, lines 307-310: an event goes to the call tracker, a
\* response to the queue, anything else nowhere.  ProcessedCalls is the table
\* a handler leaves that no other thread's step falls into.
ProcessedCalls(calls, message, time) ==
    IF message.Event # NoField THEN HandleEvent(calls, message, time) ELSE calls

ProcessedQueue(queue, message) ==
    IF message.Event = NoField /\ message.Response # NoField
    THEN Append(queue, message)
    ELSE queue

\* The event types whose handler walks the call table.
TrackedTypes == {"Newchannel", "Hangup", "Dial", "Bridge"}

\* The channels a handler compares a record's channel with, lines 348, 360,
\* 374 and 391.
Compared(event) ==
    IF Get(event, "Event", "") = "Bridge"
    THEN {Get(event, "Channel1", ""), Get(event, "Channel2", "")}
    ELSE {Get(event, "Channel", "")}

\* _handle_event has returned, by its end or by the except of line 338.
EndEvent(h) == AfterBlock(Job(h.sock, h.held, h.then))

\* The thread h whose callback loop, lines 331-336, has made h.done of its
\* calls: before the next call, or past the loop when the list of the
\* event's type holds no further callback.
InCallbacks(h) ==
    IF h.done >= Len(Invoke(Registered(event_callbacks, Get(h.event, "Event", "")),
                            h.event, <<>>))
    THEN EndEvent(h)
    ELSE [pc |-> "callbacks", sock |-> h.sock, held |-> h.held, then |-> h.then,
          event |-> h.event, done |-> h.done]

\* The handler has returned and the callback loop has called none of the
\* callbacks yet.
StartCallbacks(h) ==
    InCallbacks([sock |-> h.sock, held |-> h.held, then |-> h.then,
                 event |-> h.event, done |-> 0])

\* _handle_event, lines 317-328, as far as the handler's
\* `for call_id, call_info in self.active_calls.items()`: the iterator notes
\* the size of the dict and yields the first record; on an empty dict, and
\* for an event type without a handler, the callback loop is next.
StartHandler(job, event, calls) ==
    IF Get(event, "Event", "") \in TrackedTypes /\ calls # <<>>
    THEN [pc |-> "handling", sock |-> job.sock, held |-> job.held, then |-> job.then,
          event |-> event, pos |-> 1, size |-> Len(calls)]
    ELSE StartCallbacks([sock |-> job.sock, held |-> job.held, then |-> job.then,
                         event |-> event])

\* One turn of a handler's loop, from inside iteration h.pos: the body, which
\* on a match rewrites the record and breaks; else the iterator is asked for
\* the next record and raises RuntimeError (dictionary changed size during
\* iteration) when the dict no longer has the size noted, which the except of
\* line 338 catches after the callback loop was skipped.  The body applied to
\* a record is the handler applied to the table of that record alone.
Turn(h, calls, time) ==
    IF FirstMatch(<<calls[h.pos]>>, Compared(h.event)) = 1
    THEN [thread |-> StartCallbacks(h),
          calls |-> [calls EXCEPT ![h.pos] = HandleEvent(<<@>>, h.event, time)[1]]]
    ELSE IF Len(calls) # h.size THEN [thread |-> EndEvent(h), calls |-> calls]
    ELSE IF h.pos = h.size THEN [thread |-> StartCallbacks(h), calls |-> calls]
    ELSE [thread |-> [h EXCEPT !.pos = h.pos + 1], calls |-> calls]

\* _process_message on a message the thread has cut out of its buffer, lines
\* 286 and 307-310, and _handle_event as far as the next place where a step
\* of the event loop's thread makes a difference.  The two threads share
\* self.active_calls and self.event_callbacks without a lock: while a caller
\* can write the table, the thread stops inside the handler's loop, which
\* goes on turn by turn; else no write falls into the loop, and its turns
\* together are the handler on the table.  After the handler the thread
\* stops before each call of a callback.
Process(i, message, job) ==
    /\ response_queue' = ProcessedQueue(response_queue, message)
    /\ IF message.Event = NoField
       THEN /\ threads' = [threads EXCEPT ![i] = AfterBlock(job)]
            /\ UNCHANGED <<active_calls, invoked>>
       ELSE /\ invoked' = <<>>
            /\ IF Writers # {}
               THEN /\ threads' = [threads EXCEPT ![i] =
                                     StartHandler(job, message, active_calls)]
                    /\ UNCHANGED active_calls
               ELSE /\ threads' = [threads EXCEPT ![i] =
                                     StartCallbacks([sock |-> job.sock, held |-> job.held,
                                                     then |-> job.then, event |-> message])]
                    /\ active_calls' = ProcessedCalls(active_calls, message, now)

\* The server's response to the written action w.
ResponseTo(w, resp, msg) == ResponseMsg(resp, w.ActionID, msg)

\* The written actions the responses among `held` answer.
Answered(held, pending) ==
    {w \in pending : \E k \in 1..Len(held) :
        held[k].Event = NoField /\ held[k].ActionID = w.ActionID}

\* `held` can follow a block in the bytes of one read of socket `sock`: its
\* messages are events and responses to written actions the server has not
\* answered yet, each answered once.
Sendable(held, sock, pending) ==
    \A k \in 1..Len(held) :
          held[k].Event = NoField
          => /\ held[k].Response # NoField
             /\ \E w \in pending : w.sock = sock /\ w.ActionID = held[k].ActionID
             /\ \A j \in 1..Len(held) :
                   (held[j].Event = NoField /\ held[j].ActionID = held[k].ActionID)
                   => j = k

\* The thread's recv returns the server's response to a written action,
\* followed by the blocks of `held`, and the response is processed.
ReaderResponse(i, w, resp, msg, held, then) ==
    /\ i \in 1..Len(threads)
    /\ threads[i].pc = "recv"
    /\ w \in wire
    /\ w.sock = threads[i].sock
    /\ socks[w.sock] = "open"
    /\ Sendable(held, w.sock, wire \ {w})
    /\ wire' = wire \ ({w} \cup Answered(held, wire))
    /\ Process(i, ResponseTo(w, resp, msg), Job(w.sock, held, then))
    /\ UNCHANGED <<connected, authenticated, running, action_id, socket, socks,
                   tasks, sleeping, now>>
    /\ UNCHANGED <<event_callbacks, codecVars, otherVars>>

\* The thread's recv returns an event, followed by the blocks of `held`, and
\* the thread handles the event up to its next place.
ReaderEvent(i, event, held, then) ==
    /\ i \in 1..Len(threads)
    /\ threads[i].pc = "recv"
    /\ socks[threads[i].sock] = "open"
    /\ Sendable(held, threads[i].sock, wire)
    /\ wire' = wire \ Answered(held, wire)
    /\ Process(i, event, Job(threads[i].sock, held, then))
    /\ UNCHANGED <<connected, authenticated, running, action_id, socket, socks,
                   tasks, sleeping, now>>
    /\ UNCHANGED <<event_callbacks, codecVars, otherVars>>

\* The inner loop cuts the next block out of the buffer, lines 284-286: the
\* thread processes a message it holds, whatever state its socket is in.
ReaderNext(i) ==
    /\ i \in 1..Len(threads)
    /\ threads[i].pc = "buffered"
    /\ Process(i, Head(threads[i].held),
               Job(threads[i].sock, Tail(threads[i].held), threads[i].then))
    /\ UNCHANGED <<connected, authenticated, running, action_id, socket, socks,
                   wire, tasks, sleeping, now>>
    /\ UNCHANGED <<event_callbacks, codecVars, otherVars>>

\* The thread inside a handler's loop takes its next turn.
ReaderTurn(i) ==
    /\ i \in 1..Len(threads)
    /\ threads[i].pc = "handling"
    /\ LET turn == Turn(threads[i], active_calls, now)
       IN  /\ threads' = [threads EXCEPT ![i] = turn.thread]
           /\ active_calls' = turn.calls
    /\ UNCHANGED <<connected, authenticated, running, action_id, socket, socks,
                   response_queue, wire, tasks, sleeping, now>>
    /\ UNCHANGED <<callbackVars, codecVars, otherVars>>

\* The callback loop calls its next callback, lines 332-336, with the table
\* as it is now.
ReaderCallback(i) ==
    /\ i \in 1..Len(threads)
    /\ threads[i].pc = "callbacks"
    /\ LET h == threads[i]
           calls == Invoke(Registered(event_callbacks, Get(h.event, "Event", "")),
                           h.event, active_calls)
       IN  /\ invoked' = Append(invoked, calls[h.done + 1])
           /\ threads' = [threads EXCEPT ![i] = InCallbacks([h EXCEPT !.done = h.done + 1])]
    /\ UNCHANGED <<connected, authenticated, running, action_id, socket, socks,
                   response_queue, wire, tasks, sleeping, active_calls, now>>
    /\ UNCHANGED <<event_callbacks, codecVars, otherVars>>

\* The ActionID of a decoded block as the number it spells, 0 when it has
\* none or spells no ActionID this client has stamped.
ActionIdOf(d) ==
    IF \E n \in 1..MaxActionId : ToString(n) = Lookup(d, "ActionID")
    THEN CHOOSE n \in 1..MaxActionId : ToString(n) = Lookup(d, "ActionID")
    ELSE 0

\* The decoded block as a message.
ToMessage(d) ==
    Message(Lookup(d, "Event"), Lookup(d, "Response"), ActionIdOf(d),
            Lookup(d, "Message"), Lookup(d, "Channel"), Lookup(d, "Uniqueid"),
            Lookup(d, "SubEvent"), Lookup(d, "Channel1"), Lookup(d, "Channel2"),
            Lookup(d, "Cause"))

\* Raw blocks: the lines of a block are fields, <<key, value>>, or lines
\* without a separator, <<text>>.
LineText(line) ==
    IF Len(line) = 2 THEN line[1] \o Separator \o line[2] ELSE line[1]

RECURSIVE BlockText(_)
BlockText(lines) ==
    IF Len(lines) = 1 THEN LineText(lines[1])
    ELSE LineText(Head(lines)) \o CRLF \o BlockText(Tail(lines))

IsField(line) == Len(line) = 2
FieldsOf(lines) == SelectSeq(lines, IsField)

EventLine == <<<<"Event">>, <<"Hangup">>>>
ChannelLine == <<<<"Channel">>, <<"SIP/1000">>>>
CauseLine == <<<<"Cause">>, <<"16">>>>
ResponseLine == <<<<"Response">>, <<"Success">>>>
ActionIdLine == <<<<"ActionID">>, <<"9">>>>
OtherLine == <<<<"Foo">>, <<"bar">>>>
WordLine == <<<<"garbage">>>>
ColonLine == <<<<"Key", ":", "value">>>>
BannerLine == <<<<"Asterisk", " ", "Call", " ", "Manager/5.0">>>>
\* A field with an empty value ("CallerIDName: "), a field behind an Ogham
\* space mark (U+1680), and a field whose value ends with the first byte of a
\* two-byte character: bytes that are no UTF-8.
EmptyLine == <<<<"CallerIDName">>, <<>>>>
PaddedLine == <<<<" ", "Response">>, <<"Success">>>>
GarbledLine == <<<<"CallerIDName">>, <<"Ren", LeadByte>>>>

\* Blocks with neither an Event nor a Response field.
MalformedBlocks ==
    {<<OtherLine>>, <<WordLine>>, <<WordLine, OtherLine>>,
     <<ChannelLine, CauseLine>>, <<ColonLine, ChannelLine>>,
     <<OtherLine, EmptyLine>>}

\* Events and responses, some with lines that have no separator.
MessageBlocks ==
    {<<EventLine, ChannelLine, CauseLine>>,
     <<WordLine, EventLine, ChannelLine, CauseLine>>,
     <<EventLine, ColonLine, ChannelLine, CauseLine>>,
     <<EventLine, ChannelLine, CauseLine, WordLine>>,
     <<ResponseLine, ActionIdLine>>,
     <<BannerLine, ResponseLine, ActionIdLine>>,
     <<ResponseLine, WordLine, ActionIdLine>>,
     <<EventLine, ChannelLine, EmptyLine>>,
     <<PaddedLine, ActionIdLine>>}

\* Blocks whose bytes do not decode.
GarbledBlocks == {<<EventLine, GarbledLine>>}

BlockLines == MalformedBlocks \cup MessageBlocks \cup GarbledBlocks

\* What the listener makes of the bytes of each of these blocks, computed
\* once: the dict of lines 277 and 299-305 (none when the bytes do not
\* decode) and the message it stands for.
DecodedBlocks ==
    [lines \in BlockLines |->
        IF Decodable(BlockText(lines)) THEN Decode(DecodeUtf8(BlockText(lines)))
        ELSE NoDict]
BlockMessages == [lines \in BlockLines |-> ToMessage(DecodedBlocks[lines])]

\* The thread's recv returns the bytes of the block with these lines and of
\* its terminator, lines 277-292 and 296-313: the thread decodes them, cuts
\* the block out of its buffer and processes it; when the bytes do not
\* decode, the exception of line 277 ends the loop (lines 290-292).
ReaderBlock(i, lines, then) ==
    /\ i \in 1..Len(threads)
    /\ threads[i].pc = "recv"
    /\ socks[threads[i].sock] = "open"
    /\ IF Decodable(BlockText(lines))
       THEN /\ parsed' = DecodedBlocks[lines]
            /\ Process(i, BlockMessages[lines], Job(threads[i].sock, <<>>, then))
       ELSE /\ threads' = [threads EXCEPT ![i] =
                             [pc |-> "error", sock |-> threads[i].sock]]
            /\ UNCHANGED <<parsed, response_queue, active_calls, invoked>>
    /\ UNCHANGED <<connected, authenticated, running, action_id, socket, socks,
                   wire, tasks, sleeping, now, event_callbacks, plain, sent,
                   otherVars>>

\* socket.timeout, lines 288-289.  A recv that was blocked when the socket
\* was closed can end this way too.
ReaderTimeout(i) ==
    /\ i \in 1..Len(threads)
    /\ threads[i].pc = "recv"
    /\ socks[threads[i].sock] \in {"open", "closed"}
    /\ threads' = [threads EXCEPT ![i] = [pc |-> "loop", sock |-> 0]]
    /\ UNCHANGED <<connected, authenticated, running, action_id, socket, socks,
                   response_queue, wire, tasks, sleeping, active_calls, now>>
    /\ UNCHANGED <<callbackVars, codecVars, otherVars>>

\* How a recv on a socket in state `sock` can end the loop: the empty read of
\* a closed peer (lines 278-279) or an exception (lines 290-292).
ReadFailures(sock) ==
    CASE sock = "dead" -> {"eof", "error"}
      [] sock \in {"closed", "unconnected"} -> {"error"}
      [] OTHER -> {}

\* The loop ends on an empty read or a read error; nothing else is done.
ReaderExit(i, how) ==
    /\ i \in 1..Len(threads)
    /\ threads[i].pc = "recv"
    /\ how \in ReadFailures(socks[threads[i].sock])
    /\ threads' = [threads EXCEPT ![i] = [pc |-> how, sock |-> threads[i].sock]]
    /\ UNCHANGED <<connected, authenticated, running, action_id, socket, socks,
                   response_queue, wire, tasks, sleeping, active_calls, now>>
    /\ UNCHANGED <<callbackVars, codecVars, otherVars>>


\* ------------------------------------------------------------------ inputs
Techs == {"SIP"}
Numbers == {"1000", "2000"}

\* What the server answers to an action: Response and Message.
ServerAnswers == {<<"Success", NoField>>, <<"Error", "Permission denied">>}

\* Call IDs a caller may pass: the keys of the table and one that is none.
KnownCallIds == {active_calls[i].call_id : i \in 1..Len(active_calls)}
CallIds == KnownCallIds \cup {"call_0_0"}

Threads == 1..MaxConnects

\* What the bytes of a read can hold after the response to w: nothing, or
\* the server's response to another action written to the same socket.
Further(w) ==
    {<<>>} \cup {<<ResponseTo(v, a[1], a[2])>> :
                    v \in {u \in wire \ {w} : u.sock = w.sock}, a \in ServerAnswers}

\* ---------------------------------------------------------- specifications
\* Request/response correlation: two callers on one connection, a server
\* that answers each action at most once, in any order, or not at all.
NextCorrelator ==
    \/ (socks = <<>> /\ ConnectBegin)
    \/ ConnectSocket("ok")
    \/ ConnectBanner("ok")
    \/ \E t \in Tasks : Login(t)
    \/ \E t \in Tasks : ListActiveCalls(t)
    \/ \E t \in Tasks, n \in {"1000"}, tech \in Techs :
          Room(MaxCalls) /\ OriginateCall(t, n, tech)
    \/ \E t \in Tasks, c \in CallIds : HangupCall(t, c)
    \/ \E t \in Tasks : Resume(t)
    \/ \E i \in Threads : ReaderLoop(i)
    \/ \E i \in Threads, w \in wire, a \in ServerAnswers :
          \E held \in Further(w) : ReaderResponse(i, w, a[1], a[2], held, "loop")
    \/ \E i \in Threads : ReaderNext(i)
    \/ \E i \in Threads : ReaderTimeout(i)

SpecCorrelator == Init /\ [][NextCorrelator]_vars


\* The events the server may send.  A field an event type does not carry is
\* absent.
Event(type, ch, uid, sub, c1, c2, cause) ==
    Message(type, NoField, NoField, NoField, ch, uid, sub, c1, c2, cause)

EventChannels == {ChannelName(tech, n) : tech \in Techs, n \in Numbers} \cup {"SIP/9999"}

NewchannelEvents(uids) ==
    {Event("Newchannel", ch, uid, NoField, NoField, NoField, NoField) :
        ch \in EventChannels \cup {NoField}, uid \in uids}
DialEvents ==
    {Event("Dial", ch, NoField, sub, NoField, NoField, NoField) :
        ch \in EventChannels, sub \in {"Begin", "Answer", "End"}}
BridgeEvents ==
    {Event("Bridge", NoField, NoField, NoField, c[1], c[2], NoField) :
        c \in {<<"SIP/1000", "SIP/9999">>, <<"SIP/9999", "SIP/1000">>,
               <<"SIP/1000", "SIP/2000">>, <<"SIP/9999", "SIP/2000">>,
               <<"SIP/9999", "SIP/9998">>}}
HangupEvents ==
    {Event("Hangup", ch, NoField, NoField, NoField, NoField, "16") :
        ch \in EventChannels \cup {NoField}}
OtherEvents ==
    {Event("Newstate", ch, NoField, NoField, NoField, NoField, NoField) :
        ch \in {"SIP/1000", "SIP/9999"}}

Events == NewchannelEvents({"123"}) \cup DialEvents \cup BridgeEvents
          \cup HangupEvents \cup OtherEvents

\* The event the server sends while a caller can write the table that the
\* event's handler walks.
RaceEvents == {e \in HangupEvents : e.Channel = "SIP/2000"}

\* Call tracking: one caller on one connection, a server that answers and
\* sends any event at any time, all within one second of the clock; while a
\* caller can write the table, the event it sends is the one above.  The
\* reader stays in its loop (nothing here ends it).
NextTracker ==
    \/ (socks = <<>> /\ ConnectBegin)
    \/ ConnectSocket("ok")
    \/ ConnectBanner("ok")
    \/ (~authenticated /\ Login("t1"))
    \/ \E n \in Numbers, tech \in Techs :
          Room(MaxCalls) /\ OriginateCall("t1", n, tech)
    \/ \E c \in KnownCallIds : HangupCall("t1", c)
    \/ Resume("t1")
    \/ \E i \in Threads : ReaderLoop(i)
    \/ \E i \in Threads, w \in wire, a \in ServerAnswers :
          ReaderResponse(i, w, a[1], a[2], <<>>, "recv")
    \/ \E i \in Threads, e \in IF Writers = {} THEN Events ELSE RaceEvents :
          ReaderEvent(i, e, <<>>, "recv")
    \/ \E i \in Threads : ReaderTurn(i)

SpecTracker == Init /\ [][NextTracker]_vars

\* The connection's life under one caller: connects that succeed or fail,
\* disconnects, a peer that may close, reader threads that come and go.
NextConnection ==
    \/ ConnectBegin
    \/ \E o \in {"ok", "refused"} : ConnectSocket(o)
    \/ \E o \in {"ok", "raise"} : ConnectBanner(o)
    \/ Disconnect("t1")
    \/ Login("t1")
    \/ ListActiveCalls("t1")
    \/ Resume("t1")
    \/ \E k \in 1..MaxConnects : PeerClose(k)
    \/ \E i \in Threads : ReaderLoop(i)
    \/ \E i \in Threads, w \in wire, a \in ServerAnswers :
          \E held \in Further(w) : ReaderResponse(i, w, a[1], a[2], held, "loop")
    \/ \E i \in Threads : ReaderNext(i)
    \/ \E i \in Threads : ReaderTimeout(i)
    \/ \E i \in Threads, how \in {"eof", "error"} : ReaderExit(i, how)

SpecConnection == Init /\ [][NextConnection]_vars

\* ------------------------------------------------------------------ claims
InFlight == {t \in Tasks : tasks[t].pc = "sleep"}
InQueue(aid) == \E k \in 1..Len(response_queue) : response_queue[k].ActionID = aid
Resumed(t) == tasks[t].pc = "sleep" /\ tasks'[t].pc = "idle"
GotResponse(t) == tasks[t].pc = "idle" /\ tasks[t].ret # NoResponse

\* C1: a response that _send_action returns to a caller carries the ActionID
\* this caller's send stamped into its action, whatever other sends are in
\* flight on the connection.
C1_OwnResponseOnly ==
    \A t \in Tasks : GotResponse(t) => tasks[t].ret.ActionID = tasks[t].aid

\* C1 witness: a caller got a response while a later send of another caller
\* was still in flight.
C1_Witness ==
    \E t, u \in Tasks :
        /\ GotResponse(t)
        /\ tasks[u].pc = "sleep"
        /\ tasks[u].aid > tasks[t].aid

\* C2: when two or more actions are in flight and the queue holds exactly the
\* server's answers to them, in whatever order, a sender that wakes up returns
\* the response to its own action.
C2_MatchedByActionId ==
    [][\A t \in Tasks :
          (/\ Resumed(t)
           /\ Cardinality(InFlight) >= 2
           /\ Len(response_queue) = Cardinality(InFlight)
           /\ \A u \in InFlight : InQueue(tasks[u].aid))
          => tasks'[t].ret.ActionID = tasks[t].aid]_vars

\* C3: a response that arrives after its action was given up does not affect
\* a later action: a sender that is alone in flight and whose own response
\* has arrived returns that response.
C3_LateResponseHarmless ==
    [][\A t \in Tasks :
          (/\ Resumed(t)
           /\ InFlight = {t}
           /\ InQueue(tasks[t].aid))
          => tasks'[t].ret.ActionID = tasks[t].aid]_vars

\* C4: a send that times out returns no response, and no other caller ever
\* returns the response of the timed-out action.
C4_TimeoutLeavesNothing ==
    \A t \in Tasks :
        tasks[t].pc = "idle" /\ tasks[t].outcome = "timeout"
        => /\ tasks[t].ret = NoResponse
           /\ \A u \in Tasks \ {t} :
                 GotResponse(u) => tasks[u].ret.ActionID # tasks[t].aid

\* C4 witness: one send timed out and an action sent after it returned a
\* response.
C4_Witness ==
    \E t, u \in Tasks :
        /\ tasks[t].pc = "idle" /\ tasks[t].outcome = "timeout"
        /\ GotResponse(u)
        /\ tasks[u].aid > tasks[t].aid


Records == 1..Len(active_calls)

\* C5: Ended is terminal: no step changes the status, the end time or the
\* hangup cause of a record whose status is "ended".
C5_EndedIsTerminal ==
    [][\A k \in Records :
          active_calls[k].status = "ended"
          => /\ active_calls'[k].status = "ended"
             /\ active_calls'[k].end_time = active_calls[k].end_time
             /\ active_calls'[k].hangup_cause = active_calls[k].hangup_cause]_vars

\* C6: no step of a caller (an API operation up to its await, or from its
\* wake-up to its return) changes a record the table holds; hangup_call in
\* particular leaves the record as the reader's events made it.
C6_ApiMutatesNoRecord ==
    [][\A t \in Tasks :
          tasks'[t] # tasks[t]
          => \A k \in Records : active_calls'[k] = active_calls[k]]_vars

\* The channels an event names.
ChannelsOf(event) == {event.Channel, event.Channel1, event.Channel2} \ {NoField}
Untracked(event) == \A k \in Records : active_calls[k].channel \notin ChannelsOf(event)

\* C7: whenever the reader handles an event none of whose channels is the
\* channel of a record, the call table it leaves is the table it found: no
\* record is created, removed or modified.
C7_UntrackedEventIgnored ==
    \A e \in Events :
        Untracked(e) => ProcessedCalls(active_calls, e, now) = active_calls

\* C7 witness: the reader is receiving while the table holds a record that
\* events have moved on, and the server may send events for other channels.
C7_Witness ==
    /\ \E i \in 1..Len(threads) : threads[i].pc = "recv"
    /\ \E k \in Records : active_calls[k].status = "answered"
    /\ \E e \in Events : ChannelsOf(e) # {} /\ Untracked(e)

\* C8: every Originate, Hangup or Status action on the wire was written while
\* the client was authenticated.
C8_AuthenticatedBeforeActions ==
    \A w \in wire : w.Action \in {"Originate", "Hangup", "Status"} => w.auth

\* C9: once a reader has left its loop on an empty read or a read error of
\* the client's current socket, whose peer has closed, the client is no
\* longer connected.
C9_ReaderExitDisconnects ==
    \A i \in 1..Len(threads) :
        /\ threads[i].pc \in {"eof", "error"}
        /\ threads[i].sock = socket
        /\ socks[socket] = "dead"
        => ~connected

\* C10: at most one reader thread reads from the client's current socket.
C10_OneReaderPerConnection ==
    Cardinality({i \in 1..Len(threads) :
                    threads[i].pc = "recv" /\ threads[i].sock = socket}) <= 1


\* Call tracking with room for one more call and with two Uniqueids.
EventsWide == Events \cup NewchannelEvents({"456"})

NextCalls ==
    \/ (socks = <<>> /\ ConnectBegin)
    \/ ConnectSocket("ok")
    \/ ConnectBanner("ok")
    \/ Login("t1")
    \/ \E n \in Numbers, tech \in Techs :
          Room(MaxCalls + 1) /\ OriginateCall("t1", n, tech)
    \/ \E c \in KnownCallIds : HangupCall("t1", c)
    \/ Resume("t1")
    \/ \E i \in Threads : ReaderLoop(i)
    \/ \E i \in Threads, w \in wire, a \in ServerAnswers :
          ReaderResponse(i, w, a[1], a[2], <<>>, "recv")
    \/ \E i \in Threads, e \in EventsWide : ReaderEvent(i, e, <<>>, "recv")
    \/ \E i \in Threads : ReaderTurn(i)

SpecCalls == Init /\ [][NextCalls]_vars

\* C11: a record's unique_id is set at most once: no step changes a
\* unique_id that is not None.
C11_UniqueIdSetOnce ==
    [][\A k \in Records :
          active_calls[k].unique_id # None
          => active_calls'[k].unique_id = active_calls[k].unique_id]_vars

\* The canonical events of one call on channel ch, after the originate
\* succeeded.
CanonicalEvents(ch) ==
    <<Event("Dial", ch, NoField, "Begin", NoField, NoField, NoField),
      Event("Newchannel", ch, "123", NoField, NoField, NoField, NoField),
      Event("Dial", ch, NoField, "Answer", NoField, NoField, NoField),
      Event("Bridge", NoField, NoField, NoField, ch, "SIP/9999", NoField),
      Event("Hangup", ch, NoField, NoField, NoField, NoField, "16")>>

\* The table after the reader has handled the first n of `events`.
RECURSIVE AfterEvents(_, _, _, _)
AfterEvents(calls, events, n, time) ==
    IF n = 0 THEN calls
    ELSE ProcessedCalls(AfterEvents(calls, events, n - 1, time), events[n], time)

\* The place of a status in the order of a call's life.
Rank(status) ==
    CASE status = "originating" -> 0
      [] status = "dialing" -> 1
      [] status = "ringing" -> 2
      [] status = "answered" -> 3
      [] status = "connected" -> 4
      [] status \in {"ended", "hung_up", "failed"} -> 5

\* One call from its origination on: a caller that originates calls to one
\* number, and a server that sends the canonical events of the call's channel
\* in any order.
NextCanonical ==
    \/ (socks = <<>> /\ ConnectBegin)
    \/ ConnectSocket("ok")
    \/ ConnectBanner("ok")
    \/ (~authenticated /\ Login("t1"))
    \/ \E tech \in Techs : Room(MaxCalls + 1) /\ OriginateCall("t1", "1000", tech)
    \/ Resume("t1")
    \/ \E i \in Threads : ReaderLoop(i)
    \/ \E i \in Threads, w \in wire, a \in ServerAnswers :
          ReaderResponse(i, w, a[1], a[2], <<>>, "recv")
    \/ \E i \in Threads, n \in 1..Len(CanonicalEvents("SIP/1000")) :
          ReaderEvent(i, CanonicalEvents("SIP/1000")[n], <<>>, "recv")
    \/ \E i \in Threads : ReaderTurn(i)

SpecCanonical == Init /\ [][NextCanonical]_vars

\* Record k is as originate_call stored it and is the record the events of
\* its channel reach.
Fresh(k) ==
    /\ active_calls[k] = NewCall(active_calls[k], active_calls[k].start_time)
    /\ FirstMatch(active_calls, {active_calls[k].channel}) = k

\* C12: from the record an originate stored, the canonical events of its
\* channel (Dial Begin, Newchannel, Dial Answer, Bridge, Hangup), handled in
\* this order, never move the status backward, and they end in "ended".
C12_CanonicalForward ==
    \A k \in Records :
        Fresh(k) =>
            LET evs == CanonicalEvents(active_calls[k].channel)
                st(n) == AfterEvents(active_calls, evs, n, now)[k].status
            IN  /\ \A n \in 1..Len(evs) : Rank(st(n)) >= Rank(st(n - 1))
                /\ st(Len(evs)) = "ended"

\* C12 witness: a record that went through the whole canonical sequence.
C12_Witness ==
    \E k \in Records :
        /\ active_calls[k].status = "ended"
        /\ active_calls[k].unique_id = "123"
        /\ active_calls[k].answer_time # NoTime
        /\ active_calls[k].bridge_time # NoTime
        /\ active_calls[k].hangup_cause = "16"

\* C13: when an originate_call returns on a Success response, it returns
\* success with its call ID, and the table holds under that ID a record with
\* status Originating, the channel that was sent and no unique_id.
C13_OriginateStoresOriginating ==
    [][\A t \in Tasks :
          (Resumed(t) /\ tasks[t].req.op = "originate" /\ IsSuccess(tasks'[t].ret))
          => LET k == IndexOf(active_calls', tasks[t].req.call_id)
             IN  /\ tasks'[t].result.success
                 /\ tasks'[t].result.call_id = tasks[t].req.call_id
                 /\ k # 0
                 /\ active_calls'[k].status = "originating"
                 /\ active_calls'[k].channel = tasks[t].req.channel
                 /\ active_calls'[k].unique_id = None]_vars

\* A step in which task t returns from the operation op.
Returns(t, op) ==
    /\ tasks'[t] # tasks[t]
    /\ tasks'[t].pc = "idle"
    /\ tasks'[t].req.op = op

\* C14: an originate_call that does not get a Success response returns
\* success = FALSE with an error and leaves the call table as it was; when the
\* client is not authenticated it writes no action and stamps no ActionID.
C14_OriginateFailsCleanly ==
    [][\A t \in Tasks :
          (Returns(t, "originate") /\ ~IsSuccess(tasks'[t].ret))
          => /\ ~tasks'[t].result.success
             /\ tasks'[t].result.error # ""
             /\ active_calls' = active_calls
             /\ (tasks[t].pc = "idle" /\ ~authenticated)
                => /\ tasks'[t].result.error = "Not authenticated"
                   /\ wire' = wire
                   /\ action_id' = action_id]_vars

\* C14 witness: an originate_call that the server rejected has returned its
\* failure.
C14_Witness ==
    \E t \in Tasks :
        /\ tasks[t].pc = "idle" /\ tasks[t].req.op = "originate"
        /\ ~tasks[t].result.success
        /\ tasks[t].result.error = "Permission denied"

\* C15: hangup_call with a call ID that is no key of the table returns False
\* at once: no action is written, no ActionID is consumed, nothing is awaited
\* and the table is unchanged.
C15_UnknownCallHangup ==
    [][\A t \in Tasks :
          (/\ tasks[t].pc = "idle"
           /\ tasks'[t] # tasks[t]
           /\ tasks'[t].req.op = "hangup"
           /\ tasks'[t].req.call_id \notin KnownCallIds)
          => /\ tasks'[t].pc = "idle"
             /\ ~tasks'[t].result.success
             /\ wire' = wire
             /\ action_id' = action_id
             /\ active_calls' = active_calls]_vars

\* C15 witness: a hangup_call for an unknown call ID returned while the
\* table held a call.
C15_Witness ==
    \E t \in Tasks :
        /\ tasks[t].pc = "idle" /\ tasks[t].req.op = "hangup"
        /\ tasks[t].req.call_id \notin KnownCallIds
        /\ active_calls # <<>>

\* The server's answer to action aid has arrived and is Success.
AnsweredSuccess(aid) ==
    \E k \in 1..Len(response_queue) :
        response_queue[k].ActionID = aid /\ response_queue[k].Response = "Success"

\* C16: a login() of a client that is not authenticated makes it
\* authenticated, and returns True, exactly when the server's response to its
\* Login action is Success; otherwise it returns False and the client stays
\* not authenticated.
C16_LoginIffSuccess ==
    [][\A t \in Tasks :
          (Resumed(t) /\ tasks[t].req.op = "login" /\ ~authenticated)
          => /\ authenticated' <=> AnsweredSuccess(tasks[t].aid)
             /\ tasks'[t].result.success <=> authenticated']_vars


\* Event callbacks: one caller that logs in once, callbacks registered at
\* any time for two event types, and a server that sends events of these and
\* of a third type, one in a read or two.
RegisterTypes == {"Hangup", "Dial"}

CallbackEvents ==
    {Event("Hangup", "SIP/1000", NoField, NoField, NoField, NoField, "16"),
     Event("Dial", "SIP/1000", NoField, "Answer", NoField, NoField, NoField),
     Event("Newstate", "SIP/1000", NoField, NoField, NoField, NoField, NoField)}

NextCallbacks ==
    \/ (socks = <<>> /\ ConnectBegin)
    \/ ConnectSocket("ok")
    \/ ConnectBanner("ok")
    \/ (action_id = InitialActionId /\ Login("t1"))
    \/ Resume("t1")
    \/ \E i \in Threads : ReaderLoop(i)
    \/ \E i \in Threads, w \in wire, a \in ServerAnswers :
          ReaderResponse(i, w, a[1], a[2], <<>>, "recv")
    \/ \E i \in Threads : ReaderTimeout(i)
    \/ \E type \in RegisterTypes, callback \in Callbacks :
          RegisterEventCallback(type, callback)
    \/ \E i \in Threads, e \in CallbackEvents :
          \E held \in {<<>>} \cup {<<f>> : f \in CallbackEvents} :
             ReaderEvent(i, e, held, "recv")
    \/ \E i \in Threads : ReaderNext(i)
    \/ \E i \in Threads : ReaderCallback(i)

SpecCallbacks == Init /\ [][NextCallbacks]_vars

\* The callbacks a log of calls names, in the order of the calls.
Called(log) == [k \in 1..Len(log) |-> log[k].callback]

\* C17: when a reader thread handles an event, every callback registered for
\* the event's type is called once, in the order of registration, whether or
\* not an earlier one raised, and the thread goes on to the next message: the
\* next block of its buffer, or the next read.
C17_CallbacksIsolated ==
    [][\A i \in 1..Len(threads) :
          (threads[i].pc = "callbacks" /\ threads'[i].pc # "callbacks")
          => /\ Called(invoked') = Registered(event_callbacks, threads[i].event.Event)
             /\ threads'[i].pc = IF threads[i].held = <<>> THEN "recv" ELSE "buffered"]_vars

\* C17 witness: a callback raised and the one registered after it was called
\* all the same; the reader is at the next block of its buffer.
C17_Witness ==
    /\ Len(invoked) = 2
    /\ invoked[1].raised
    /\ ~invoked[2].raised
    /\ \E i \in 1..Len(threads) : threads[i].pc = "buffered"


\* Event dispatch with the two threads interleaved: as SpecCallbacks, with a
\* caller that originates calls while the reader thread handles events of
\* the calls' channel and of a channel of no call.
DispatchEvents ==
    {e \in CallbackEvents : e.Event \in TrackedTypes}
    \cup {Event("Hangup", "SIP/2000", NoField, NoField, NoField, NoField, "16")}

NextDispatch ==
    \/ (socks = <<>> /\ ConnectBegin)
    \/ ConnectSocket("ok")
    \/ ConnectBanner("ok")
    \/ (~authenticated /\ Login("t1"))
    \/ \E tech \in Techs : Room(MaxCalls + 1) /\ OriginateCall("t1", "1000", tech)
    \/ Resume("t1")
    \/ \E i \in Threads : ReaderLoop(i)
    \/ \E i \in Threads, w \in wire, a \in ServerAnswers :
          ReaderResponse(i, w, a[1], a[2], <<>>, "recv")
    \/ \E type \in RegisterTypes, callback \in Callbacks :
          RegisterEventCallback(type, callback)
    \/ \E i \in Threads, e \in DispatchEvents : ReaderEvent(i, e, <<>>, "recv")
    \/ \E i \in Threads : ReaderTurn(i)
    \/ \E i \in Threads : ReaderCallback(i)

SpecDispatch == Init /\ [][NextDispatch]_vars

\* The table holds the event already: the event's handler would change no
\* record's status.
Includes(calls, event) ==
    \A k \in 1..Len(calls) :
        HandleEvent(calls, event, now)[k].status = calls[k].status

\* C18: when the handling of an event ends, every callback registered for the
\* event's type has been called, also when the tracker update failed, and
\* each of them saw a call table that held the event already.
C18_TrackerThenEveryCallback ==
    [][\A i \in 1..Len(threads) :
          (/\ threads[i].pc \in {"handling", "callbacks"}
           /\ threads'[i].pc \notin {"handling", "callbacks"})
          => /\ Called(invoked') = Registered(event_callbacks, threads[i].event.Event)
             /\ \A k \in 1..Len(invoked') :
                   Includes(invoked'[k].seen, threads[i].event)]_vars


\* The codec: a connected client sends an action, and the text it wrote is
\* decoded again.  Keys are words, among them the ActionID that login and
\* originate_call put into their dicts themselves (lines 86 and 134) and the
\* CallerID that originate_call adds last (line 140); values are words,
\* empty, or hold spaces or a separator.
CodecKeys == {<<"Action">>, <<"ActionID">>, <<"CallerID">>}

CodecValues ==
    {<<"Login">>, <<>>, <<" ", "x">>, <<"x", " ">>, <<"a", " ", "b">>,
     <<"a", ":", " ", "b">>}

CodecActions ==
    {<<<<k, v>>>> : k \in CodecKeys, v \in CodecValues}
    \cup {<<<<k[1], v1>>, <<k[2], v2>>>> :
             k \in {kk \in CodecKeys \X CodecKeys : kk[1] # kk[2]},
             v1 \in CodecValues, v2 \in CodecValues}

NextCodec ==
    \/ (socks = <<>> /\ ConnectBegin)
    \/ ConnectSocket("ok")
    \/ ConnectBanner("ok")
    \/ \E fields \in CodecActions : EncodeAction("t1", fields)
    \/ Resume("t1")
    \/ DecodeSent

SpecCodec == Init /\ [][NextCodec]_vars

\* C19: the dict decoded from the encoding of an action is the action.
C19_RoundTrip ==
    (plain # <<>> /\ parsed # NoDict) => parsed = ToDict(plain)


\* The reader on raw bytes: one caller that logs in once and originates a
\* call, callbacks for Hangup events, and a server that besides its answers
\* sends any of the raw blocks at any time, while the response queue is
\* short, or nothing for a while, and that may close the connection.
NextBlocks ==
    \/ (socks = <<>> /\ ConnectBegin)
    \/ ConnectSocket("ok")
    \/ ConnectBanner("ok")
    \/ (action_id = InitialActionId /\ Login("t1"))
    \/ \E tech \in Techs : Room(MaxCalls + 1) /\ OriginateCall("t1", "1000", tech)
    \/ Resume("t1")
    \/ \E i \in Threads : ReaderLoop(i)
    \/ \E i \in Threads, w \in wire, a \in ServerAnswers :
          ReaderResponse(i, w, a[1], a[2], <<>>, "recv")
    \/ RegisterEventCallback("Hangup", "returns")
    \/ \E i \in Threads, lines \in BlockLines :
          Len(response_queue) < MaxQueue /\ ReaderBlock(i, lines, "recv")
    \/ \E i \in Threads : ReaderTurn(i)
    \/ \E i \in Threads : ReaderCallback(i)
    \/ \E i \in Threads : ReaderTimeout(i)
    \/ \E k \in 1..Len(socks) : PeerClose(k)
    \/ \E i \in Threads, how \in {"eof", "error"} : ReaderExit(i, how)

SpecBlocks == Init /\ [][NextBlocks]_vars

\* C20: malformed input is skipped and never ends the reader: whatever the
\* state of the client, in every step in which a reader thread takes a block
\* off its connection, the thread does not leave its loop; the dict it builds
\* holds exactly the fields of the block's lines that have a separator, the
\* other lines being skipped; and when that dict has neither Event nor
\* Response, no call record changes, nothing is put on the response queue,
\* no callback is called and the thread is in recv for the next block.
C20_MalformedSkipped ==
    [][\A i \in 1..Len(threads), lines \in BlockLines :
          ReaderBlock(i, lines, "recv")
          => /\ threads'[i].pc \notin {"stopped", "eof", "error"}
             /\ parsed' = ToDict(FieldsOf(lines))
             /\ (/\ Lookup(parsed', "Event") = NoField
                 /\ Lookup(parsed', "Response") = NoField)
                => /\ active_calls' = active_calls
                   /\ response_queue' = response_queue
                   /\ invoked' = invoked
                   /\ threads'[i].pc = "recv"]_vars

\* A reader thread that has left its loop.
Stopped(thread) == thread.pc \in {"stopped", "eof", "error"}

\* C21: when disconnect() returns, the socket is closed, the client is neither
\* connected nor authenticated, and every reader thread has left its loop; a
\* disconnect() of a client that a disconnect() has already closed writes
\* nothing and changes nothing.
C21_DisconnectStopsAll ==
    [][\A t \in Tasks :
          Returns(t, "disconnect")
          => /\ ~connected' /\ ~authenticated' /\ ~running'
             /\ socket # 0 => socks'[socket] = "closed"
             /\ \A i \in 1..Len(threads') : Stopped(threads'[i])
             /\ (/\ ~connected /\ ~authenticated /\ ~running
                 /\ (socket = 0 \/ socks[socket] = "closed"))
                => UNCHANGED <<wire, action_id, socks, socket, threads,
                               response_queue, active_calls>>]_vars


\* C22: while a reader thread is inside a handler's loop over the call
\* table, no other thread's step changes the table.
C22_ReaderExcludesWriters ==
    [][\A i \in 1..Len(threads) :
          (threads[i].pc = "handling" /\ threads'[i] = threads[i])
          => active_calls' = active_calls]_vars

\* ------------------------------------------------- the handlers, one by one
\* The events of the two channels a caller can originate on, and of a channel
\* of no call: each kind the tracker handles, a Dial event of each SubEvent,
\* and a Bridge event with the channel on either side.
HandlerChannels == {"SIP/1000", "SIP/2000"}
HandlerEvents ==
    {Event("Newchannel", ch, uid, NoField, NoField, NoField, NoField) :
        ch \in HandlerChannels, uid \in {"123"}}
    \cup {Event("Dial", ch, NoField, sub, NoField, NoField, NoField) :
        ch \in HandlerChannels, sub \in {"Begin", "Answer", "End"}}
    \cup {Event("Bridge", NoField, NoField, NoField, c[1], c[2], NoField) :
        c \in {<<"SIP/1000", "SIP/9999">>, <<"SIP/9999", "SIP/2000">>}}
    \cup {Event("Hangup", ch, NoField, NoField, NoField, NoField, cause) :
        ch \in HandlerChannels, cause \in {"16", "17"}}

\* One caller that originates calls to either number and a server that sends
\* the events above in any order, each when no caller can write the table
\* that its handler walks.
NextHandlers ==
    \/ (socks = <<>> /\ ConnectBegin)
    \/ ConnectSocket("ok")
    \/ ConnectBanner("ok")
    \/ (~authenticated /\ Login("t1"))
    \/ \E n \in Numbers :
          Room(MaxCalls) /\ OriginateCall("t1", n, "SIP")
    \/ Resume("t1")
    \/ \E i \in Threads : ReaderLoop(i)
    \/ \E i \in Threads, w \in wire, a \in ServerAnswers :
          ReaderResponse(i, w, a[1], a[2], <<>>, "recv")
    \/ Writers = {}
       /\ \E i \in Threads, e \in HandlerEvents : ReaderEvent(i, e, <<>>, "recv")

SpecHandlers == Init /\ [][NextHandlers]_vars

\* The record k is the record of channel ch: it has the channel and no other
\* record has it.
RecordOf(k, ch) ==
    /\ active_calls[k].channel = ch
    /\ \A j \in Records : active_calls[j].channel = ch => j = k

NonTerminal == {"originating", "dialing", "ringing", "answered", "connected"}

\* C23: a Hangup event for the channel of a record in a non-terminal status
\* leaves the record with status "ended", the time of handling as end_time and
\* the event's Cause as hangup_cause.
C23_HangupEnds ==
    \A e \in HandlerEvents, k \in Records :
        (/\ e.Event = "Hangup"
         /\ RecordOf(k, e.Channel)
         /\ active_calls[k].status \in NonTerminal)
        => LET after == ProcessedCalls(active_calls, e, now)[k]
           IN  /\ after.status = "ended"
               /\ after.end_time = now
               /\ after.hangup_cause = e.Cause

\* C23 witness: a record that a Hangup event with Cause 17 ended.
C23_Witness ==
    \E k \in Records :
        /\ active_calls[k].status = "ended"
        /\ active_calls[k].hangup_cause = "17"
        /\ active_calls[k].end_time # NoTime

\* C24: a Dial event with SubEvent Answer for the channel of a record with
\* status "ringing" leaves the record with status "answered" and the time of
\* handling as answer_time; a Dial event with a SubEvent other than Begin and
\* Answer changes no record's status.
C24_DialAnswers ==
    \A e \in HandlerEvents, k \in Records :
        LET after == ProcessedCalls(active_calls, e, now)[k]
        IN  /\ (/\ e.Event = "Dial" /\ e.SubEvent = "Answer"
                /\ RecordOf(k, e.Channel)
                /\ active_calls[k].status = "ringing")
               => (after.status = "answered" /\ after.answer_time = now)
            /\ (e.Event = "Dial" /\ e.SubEvent \notin {"Begin", "Answer"})
               => after.status = active_calls[k].status

\* C24 witness: a record that a Dial Answer event answered after a Newchannel
\* event had made it ring, while the server may send a Dial End event for its
\* channel.
C24_Witness ==
    \E k \in Records :
        /\ active_calls[k].status = "answered"
        /\ active_calls[k].unique_id # None
        /\ active_calls[k].answer_time # NoTime
        /\ \E e \in HandlerEvents :
              /\ e.Event = "Dial" /\ e.SubEvent = "End"
              /\ e.Channel = active_calls[k].channel

\* C26: a Newchannel event for the channel of a record with status "dialing"
\* or "ringing" leaves the record with status "ringing" and the event's
\* Uniqueid as unique_id.
C26_NewchannelRings ==
    \A e \in HandlerEvents, k \in Records :
        (/\ e.Event = "Newchannel"
         /\ RecordOf(k, e.Channel)
         /\ active_calls[k].status \in {"dialing", "ringing"})
        => LET after == ProcessedCalls(active_calls, e, now)[k]
           IN  /\ after.status = "ringing"
               /\ after.unique_id = e.Uniqueid

\* C26 witness: a record that a Newchannel event with Uniqueid 123 made ring.
C26_Witness ==
    \E k \in Records :
        /\ active_calls[k].status = "ringing"
        /\ active_calls[k].unique_id = "123"

\* C25: a Bridge event leaves every record with status "answered" whose
\* channel is the event's Channel1 or Channel2 with status "connected" and the
\* time of handling as bridge_time: the record of either channel, and both
\* records when both channels are channels of calls.
C25_BridgeConnectsBoth ==
    \A e \in EventsWide, k \in Records :
        (/\ e.Event = "Bridge"
         /\ \E ch \in {e.Channel1, e.Channel2} : RecordOf(k, ch)
         /\ active_calls[k].status = "answered")
        => LET after == ProcessedCalls(active_calls, e, now)[k]
           IN  /\ after.status = "connected"
               /\ after.bridge_time = now

\* get_call_status(), lines 209-211: `self.active_calls.get(call_id)`, the
\* record stored under the call id or None; it reads the table and does
\* nothing else.
GetCallStatus(calls, call_id) ==
    IF \E i \in 1..Len(calls) : calls[i].call_id = call_id
    THEN calls[CHOOSE i \in 1..Len(calls) : calls[i].call_id = call_id]
    ELSE None

\* C27: the status queries are read-only and do not block: every step of
\* list_active_calls() returns at once, writes no action, consumes no ActionID,
\* takes nothing out of the response queue and changes neither the table nor
\* the state of the connection; get_call_status() is a function of the table.
C27_QueriesReadOnly ==
    [][\A t \in Tasks :
          (tasks'[t] # tasks[t] /\ tasks'[t].req.op = "status")
          => /\ tasks'[t].pc = "idle"
             /\ wire' = wire
             /\ action_id' = action_id
             /\ response_queue' = response_queue
             /\ active_calls' = active_calls
             /\ UNCHANGED <<connected, authenticated, socks>>]_vars

\* ------------------------------------------------ the ActionIDs of a client
\* One client over its lifetime: it connects, logs in, originates, hangs up,
\* asks for the status and disconnects, in any order, and connects again
\* after a disconnect; the server answers Success or stays silent, and may
\* close the client's connection, after which a send is lost or fails.
NextActions ==
    \/ (~connected /\ ConnectBegin)
    \/ ConnectSocket("ok")
    \/ ConnectBanner("ok")
    \/ (~authenticated /\ Login("t1"))
    \/ Room(MaxCalls) /\ OriginateCall("t1", "1000", "SIP")
    \/ \E c \in KnownCallIds : HangupCall("t1", c)
    \/ ListActiveCalls("t1")
    \/ Disconnect("t1")
    \/ Resume("t1")
    \/ PeerClose(socket)
    \/ \E i \in Threads : ReaderLoop(i)
    \/ \E i \in Threads, w \in wire :
          ReaderResponse(i, w, "Success", NoField, <<>>, "recv")

SpecActions == Init /\ [][NextActions]_vars

\* C28: the ActionIDs of a client only grow, and every action written to the
\* connection carries an ActionID greater than the one the client had before
\* the write; no action on the wire carries an ActionID greater than the
\* client's.  Every action written earlier was stamped with the ActionID the
\* client had then, so each written action's ActionID is greater than that of
\* every action written before it, whatever became of the earlier sends.
C28_ActionIdsIncrease ==
    [][/\ action_id' >= action_id
       /\ \A w \in wire : w.ActionID <= action_id
       /\ \A w \in wire' \ wire :
             w.ActionID = action_id' /\ w.ActionID > action_id]_vars

\* C28 witness: while an earlier action is still on the wire unanswered, the
\* client has written a further action, stamped with its newest ActionID, and
\* the caller is waiting for the response.
C28_Witness ==
    /\ \E w \in wire : w.ActionID = action_id /\ w.ActionID > InitialActionId + 1
    /\ \E t \in Tasks : tasks[t].pc = "sleep" /\ tasks[t].aid = action_id
    /\ Cardinality(wire) >= 2

\* ------------------------------------------- the conversation state machine
managerVars ==
    <<connected, authenticated, running, action_id, socket, socks, threads,
      response_queue, wire, tasks, sleeping, active_calls, now, callbackVars,
      codecVars, connecting>>

\* A call of one of the trigger methods the machine added to the model
\* (sm.start_call(), sm.customer_answered(), ...), state_machine.py lines
\* 132-138 and 146-155, with what it did to the state and what it raised.
TriggerCall(trigger) ==
    /\ Len(triggered) < MaxTriggered
    /\ LET after == Fire(state, trigger)
       IN  /\ state' = after.state
           /\ triggered' = Append(triggered,
                               [trigger |-> trigger, source |-> state,
                                dest |-> after.state, raised |-> after.raised])
    /\ UNCHANGED <<managerVars, providerVars, streamVars, context, results>>

\* start_conversation(customer_phone, customer_name), lines 172-179: the
\* context is replaced by a new one, which gets the phone number, the name
\* and the start time, and start_call is called; what start_call raises
\* leaves the function, after the context was replaced.
StartConversation ==
    /\ Len(triggered) < MaxTriggered
    /\ context' = ConversationContext
    /\ LET after == Fire(state, "start_call")
       IN  /\ state' = after.state
           /\ triggered' = Append(triggered,
                               [trigger |-> "start_call", source |-> state,
                                dest |-> after.state, raised |-> after.raised])
    /\ UNCHANGED <<managerVars, providerVars, streamVars, results>>

\* The speakers of a turn: the customer, whose turns process_customer_input
\* adds (line 183), and the agent.
Speakers == {"customer", "agent"}

\* context.add_turn(speaker, text, emotion), lines 59-67, called on the
\* machine's public context: the turn is appended to the history; the state,
\* the stored emotion and the objection count stay.  The text is the set of
\* the keyword lists it has a word of (add_turn does not read it).
AddTurn(speaker, text, emotion) ==
    /\ Len(context.conversation_history) < MaxTurns
    /\ context' =
          [context EXCEPT !.conversation_history =
               Append(@, [speaker |-> speaker, text |-> text, emotion |-> emotion])]
    /\ UNCHANGED <<managerVars, providerVars, streamVars, state, triggered, results>>

\* A new ConversationStateMachine, conversations started on it, turns added
\* to its context and any calls of its triggers.
NextMachine ==
    \/ \E trigger \in Triggers : TriggerCall(trigger)
    \/ StartConversation
    \/ \E speaker \in Speakers : AddTurn(speaker, {}, None)

SpecMachine == Init /\ [][NextMachine]_vars

\* C29: a new machine is in the initial state; start_call called in the
\* initial state leaves the machine in the opening state, and
\* customer_answered called in the opening state leaves it in the
\* introducing state.  States are compared by their values, so the statement
\* does not depend on whether the state is held as a member or as a string.
C29_OpeningSteps ==
    /\ triggered = <<>> => ValueOf(state) = "initial"
    /\ \A k \in 1..Len(triggered) :
          /\ (/\ triggered[k].trigger = "start_call"
              /\ ValueOf(triggered[k].source) = "initial")
             => ValueOf(triggered[k].dest) = "opening"
          /\ (/\ triggered[k].trigger = "customer_answered"
              /\ ValueOf(triggered[k].source) = "opening")
             => ValueOf(triggered[k].dest) = "introducing"

\* ------------------------------------------------- the telephony provider
\* The provider's handlers, registered with the manager as event callbacks
\* (lines 461-463); they return.
OnDialEvent == "_on_dial_event"
OnHangupEvent == "_on_hangup_event"
OnBridgeEvent == "_on_bridge_event"

\* The callbacks of the application, registered with the provider.
CallCallbacks == {"cb1", "cb2"}

\* register_call_callback, lines 518-520.
RegisterCallCallback(kind, callback) ==
    /\ LoopRuns
    /\ call_callbacks[kind] # callback
    /\ call_callbacks' = [call_callbacks EXCEPT ![kind] = callback]
    /\ UNCHANGED <<managerVars, machineVars, streamVars>>

\* initialize(), lines 449-452, into connect() as far as the assignment of
\* the new socket (lines 52-55); ConnectSocket and ConnectBanner go on from
\* there, and ConnectReturns is what initialize() does when connect() returns.
Initialize(t) ==
    /\ LoopRuns
    /\ Idle(t)
    /\ Len(socks) < MaxConnects
    /\ action_id < MaxActionId
    /\ socket' = Len(socks) + 1
    /\ socks' = Append(socks, "unconnected")
    /\ connecting' = "connect"
    /\ tasks' = [tasks EXCEPT ![t] =
                   [pc |-> "connect", req |-> Request("initialize", "", "", ""),
                    aid |-> 0, outcome |-> "pending", ret |-> NoResponse,
                    result |-> NoResult]]
    /\ UNCHANGED <<connected, authenticated, running, action_id, threads,
                   response_queue, wire, sleeping, active_calls, now>>
    /\ UNCHANGED <<callbackVars, codecVars, providerVars, machineVars, streamVars>>

\* The handlers initialize() registers with the manager, lines 461-463, in
\* the order of the calls: <<event type, callback>>.
ProviderHandlers ==
    <<<<"Dial", OnDialEvent>>, <<"Hangup", OnHangupEvent>>, <<"Bridge", OnBridgeEvent>>>>

\* initialize() from the wake-up of login's _send_action, lines 254-264, 90-97
\* and 457-459: login() returns whether the response is a Success; if it is
\* not, initialize() returns False, else it is before the first of its
\* register_event_callback calls, having made `done` = 0 of them.
InitializeResume(t) ==
    /\ LoopRuns
    /\ sleeping # <<>>
    /\ t = Head(sleeping)
    /\ tasks[t].req.op = "initialize"
    /\ sleeping' = Tail(sleeping)
    /\ response_queue' = AfterGet(response_queue)
    /\ LET response == Answer(response_queue, tasks[t].aid)
       IN  /\ authenticated' = IF IsSuccess(response) THEN TRUE ELSE authenticated
           /\ tasks' = [tasks EXCEPT ![t] =
                          IF IsSuccess(response)
                          THEN [pc |-> "register", req |-> tasks[t].req,
                                aid |-> tasks[t].aid,
                                outcome |-> Outcome(response_queue, tasks[t].aid),
                                ret |-> response, result |-> NoResult, done |-> 0]
                          ELSE Returned(tasks[t].req, tasks[t].aid,
                                        Outcome(response_queue, tasks[t].aid), response,
                                        Result(FALSE, "", ""))]
    /\ UNCHANGED <<connected, running, action_id, socket, socks, threads, wire,
                   active_calls, now, callbackVars, codecVars, otherVars>>

\* initialize(), lines 461-466: the next register_event_callback call (lines
\* 230-234) appends the handler to the list of its event type, while the
\* reader thread goes on; after the third call initialize() returns True.
InitializeRegister(t) ==
    /\ tasks[t].pc = "register"
    /\ LET handler == ProviderHandlers[tasks[t].done + 1]
       IN  /\ event_callbacks' =
                 [event_callbacks EXCEPT ![handler[1]] = Append(@, handler[2])]
           /\ tasks' = [tasks EXCEPT ![t] =
                          IF tasks[t].done + 1 = Len(ProviderHandlers)
                          THEN Returned(tasks[t].req, tasks[t].aid, tasks[t].outcome,
                                        tasks[t].ret, Result(TRUE, "", ""))
                          ELSE [tasks[t] EXCEPT !.done = tasks[t].done + 1]]
    /\ UNCHANGED <<connected, authenticated, running, action_id, socket, socks,
                   threads, response_queue, wire, sleeping, active_calls, now,
                   invoked, codecVars, otherVars>>

Fed(kind, callbacks, event) ==
    IF callbacks[kind] # None
    THEN <<[kind |-> kind, callback |-> callbacks[kind], event |-> event]>>
    ELSE <<>>

\* What a callback of the manager's list passes on to the application when
\* it is called with the event: _on_dial_event (lines 522-527),
\* _on_hangup_event (529-532), _on_bridge_event (534-537); any other callback
\* is not the provider's.
Handler(callback, callbacks, event) ==
    CASE callback = OnDialEvent ->
           IF Get(event, "SubEvent", "") = "Answer"
           THEN Fed("call_answered", callbacks, event) ELSE <<>>
      [] callback = OnHangupEvent -> Fed("call_ended", callbacks, event)
      [] callback = OnBridgeEvent -> Fed("call_connected", callbacks, event)
      [] OTHER -> <<>>

\* The calls of the application's callbacks made by the callback calls of
\* `log`, in order.
RECURSIVE Feed(_, _)
Feed(log, callbacks) ==
    IF log = <<>> THEN <<>>
    ELSE Handler(Head(log).callback, callbacks, Head(log).event)
         \o Feed(Tail(log), callbacks)

ProviderEvents ==
    CallbackEvents
    \cup {Event("Dial", "SIP/1000", NoField, "Begin", NoField, NoField, NoField),
          Event("Bridge", NoField, NoField, NoField, "SIP/1000", "SIP/9999", NoField)}

\* An application that initializes the provider, any number of times, and
\* registers its callbacks, and a server that answers the logins and sends
\* events, also between the handler registrations of an initialize().
NextProvider ==
    \/ Initialize("t1")
    \/ \E o \in {"ok", "refused"} : ConnectSocket(o)
    \/ \E o \in {"ok", "raise"} : ConnectBanner(o)
    \/ InitializeResume("t1")
    \/ InitializeRegister("t1")
    \/ \E kind \in FeedKinds, callback \in CallCallbacks :
          RegisterCallCallback(kind, callback)
    \/ \E i \in Threads : ReaderLoop(i)
    \/ \E i \in Threads, w \in wire, a \in ServerAnswers :
          ReaderResponse(i, w, a[1], a[2], <<>>, "recv")
    \/ \E i \in Threads, e \in ProviderEvents : ReaderEvent(i, e, <<>>, "recv")
    \/ \E i \in Threads : ReaderCallback(i)

SpecProvider == Init /\ [][NextProvider]_vars

\* The events a kind of the feed stands for.
Expected(kind, event) ==
    CASE kind = "call_answered" -> event.Event = "Dial" /\ event.SubEvent = "Answer"
      [] kind = "call_connected" -> event.Event = "Bridge"
      [] kind = "call_ended" -> event.Event = "Hangup"

\* A call of initialize() has returned True and no other is on its way.
Initialized ==
    \E t \in Tasks :
        /\ tasks[t].pc = "idle"
        /\ tasks[t].req.op = "initialize"
        /\ tasks[t].result.success

\* C30: once the provider is initialized, whatever event the manager handles,
\* the callback registered for a kind of the feed is called exactly once when
\* the event is one the kind stands for and not at all otherwise, and it is
\* called with the event.
C30_FeedOneToOne ==
    Initialized
    => \A e \in ProviderEvents, kind \in FeedKinds :
          call_callbacks[kind] # None
          => LET feed == Feed(Invoke(Registered(event_callbacks, e.Event), e,
                                     ProcessedCalls(active_calls, e, now)),
                              call_callbacks)
                 calls == {k \in 1..Len(feed) : feed[k].kind = kind}
             IN  /\ Cardinality(calls) = IF Expected(kind, e) THEN 1 ELSE 0
                 /\ \A k \in calls : feed[k].event = e

\* The reader thread i can take the next message off its socket.
Receiving(i) == threads[i].pc = "recv" /\ socks[threads[i].sock] = "open"

\* C31: no event of the originated channel is lost after the Success
\* response: whenever the reader has queued the Success response to a task's
\* Originate action and can receive the server's next message, the table
\* that results from handling an event of the call's channel holds the call's
\* record, and a Hangup event leaves that record ended.
C31_NoEventLost ==
    \A t \in Originating, e \in Events :
        (/\ \E n \in 1..Len(response_queue) :
               /\ response_queue[n].ActionID = tasks[t].aid
               /\ IsSuccess(response_queue[n])
         /\ \E i \in 1..Len(threads) : Receiving(i)
         /\ e.Event \in TrackedTypes
         /\ e.Channel = tasks[t].req.channel)
        => LET after == ProcessedCalls(active_calls, e, now)
           IN  \E k \in 1..Len(after) :
                  /\ after[k].call_id = tasks[t].req.call_id
                  /\ e.Event = "Hangup" => after[k].status = "ended"

\* C32: a call follows the events of its channel also when older records
\* have the same channel: when every older record of the channel has ended
\* and the newest one has not, a Hangup event of the channel leaves the
\* newest record ended, and a Newchannel event leaves it ringing.
C32_NewestRecordFollows ==
    \A e \in EventsWide, k \in Records :
        (/\ e.Event \in {"Hangup", "Newchannel"}
         /\ active_calls[k].channel = e.Channel
         /\ active_calls[k].status \in NonTerminal
         /\ \E j \in 1..(k - 1) : active_calls[j].channel = e.Channel
         /\ \A j \in Records \ {k} :
               active_calls[j].channel = e.Channel
               => j < k /\ active_calls[j].status = "ended")
        => LET after == ProcessedCalls(active_calls, e, now)[k]
           IN  after.status = IF e.Event = "Hangup" THEN "ended" ELSE "ringing"

\* ------------------------------------------------------ reads and framing
\* What the inner loop of lines 284-286 leaves in the buffer.
RECURSIVE Remainder(_)
Remainder(text) ==
    IF ~Contains(text, BlockEnd) THEN text
    ELSE Remainder(SplitOnce(text, BlockEnd)[2])

\* _process_message called on each of the blocks in turn, line 286: the call
\* table, the response queue and the callback calls of the last event.
RECURSIVE CallsAfter(_, _, _)
CallsAfter(calls, blocks, time) ==
    IF blocks = <<>> THEN calls
    ELSE CallsAfter(ProcessedCalls(calls, ToMessage(Decode(Head(blocks))), time),
                    Tail(blocks), time)

RECURSIVE QueueAfter(_, _)
QueueAfter(queue, blocks) ==
    IF blocks = <<>> THEN queue
    ELSE QueueAfter(ProcessedQueue(queue, ToMessage(Decode(Head(blocks)))),
                    Tail(blocks))

RECURSIVE InvokedAfter(_, _, _, _, _)
InvokedAfter(calls, before, callbacks, blocks, time) ==
    IF blocks = <<>> THEN before
    ELSE LET message == ToMessage(Decode(Head(blocks)))
             after == ProcessedCalls(calls, message, time)
         IN  InvokedAfter(after,
                          IF message.Event # NoField
                          THEN Invoke(Registered(callbacks, message.Event), message, after)
                          ELSE before,
                          callbacks, Tail(blocks), time)

\* Server byte streams: a Hangup event, a response and the beginning of a
\* further event, with words that span several pieces so that a read can end
\* inside a word; the second stream has a caller name with a two-byte
\* character.
HangupBytes ==
    <<"Ev", "ent", ":", " ", "Han", "gup", CR, LF,
      "Chan", "nel", ":", " ", "SIP/", "1000", CR, LF,
      "Cause", ":", " ", "1", "6">>
ResponseBytes ==
    <<"Res", "ponse", ":", " ", "Suc", "cess", CR, LF,
      "Action", "ID", ":", " ", "9">>
NamedBytes ==
    <<"Event", ":", " ", "Newchannel", CR, LF,
      "CallerIDName", ":", " ", "Ren", LeadByte, ContinuationByte>>
Streams ==
    {HangupBytes \o BlockEnd \o ResponseBytes \o BlockEnd \o <<"Ev", "ent", ":", " ", "Han">>,
     NamedBytes \o BlockEnd \o ResponseBytes \o BlockEnd,
     ResponseBytes \o BlockEnd \o HangupBytes \o <<CR, LF, CR>>}

\* The server writes a byte stream to the socket, from the moment the
\* connection is made: before or after connect() has read the banner.
ServerSend(bytes) ==
    /\ socket # 0
    /\ socks[socket] = "open"
    /\ served = <<>>
    /\ served' = bytes
    /\ stream' = bytes
    /\ UNCHANGED <<managerVars, providerVars, machineVars, buffer, processed, welcome>>

\* One pass of the listener's loop with a read that returns the next n bytes
\* of the stream, lines 274-292: the bytes are decoded and appended to the
\* buffer, and every complete block is cut out of the buffer and processed;
\* when the bytes cannot be decoded, the exception ends the loop.
Recv(i, n) ==
    /\ i \in 1..Len(threads)
    /\ threads[i].pc = "recv"
    /\ socks[threads[i].sock] = "open"
    /\ n \in 1..Len(stream)
    /\ stream' = SubSeq(stream, n + 1, Len(stream))
    /\ LET data == SubSeq(stream, 1, n)
           text == buffer \o DecodeUtf8(data)
           blocks == Blocks(text)
       IN  IF Decodable(data)
           THEN /\ buffer' = Remainder(text)
                /\ processed' = processed \o blocks
                /\ active_calls' = CallsAfter(active_calls, blocks, now)
                /\ response_queue' = QueueAfter(response_queue, blocks)
                /\ invoked' = InvokedAfter(active_calls, invoked, event_callbacks,
                                           blocks, now)
                /\ parsed' = IF blocks = <<>> THEN parsed
                             ELSE Decode(blocks[Len(blocks)])
                /\ threads' = [threads EXCEPT ![i] = [pc |-> "loop", sock |-> 0]]
           ELSE /\ threads' = [threads EXCEPT ![i] =
                                 [pc |-> "error", sock |-> threads[i].sock]]
                /\ UNCHANGED <<buffer, processed, active_calls, response_queue,
                               invoked, parsed>>
    /\ UNCHANGED <<connected, authenticated, running, action_id, socket, socks,
                   wire, tasks, sleeping, now, event_callbacks, plain, sent,
                   connecting, providerVars, machineVars, served, welcome>>

\* One connection and a server that writes one of the byte streams, before
\* or after connect() has read the banner; the reads of the banner and of
\* the listener cut the stream anywhere.
NextFraming ==
    \/ (socks = <<>> /\ ConnectBegin)
    \/ ConnectSocket("ok")
    \/ ConnectBanner("ok")
    \/ \E bytes \in Streams : ServerSend(bytes)
    \/ \E i \in 1..Len(threads) : ReaderLoop(i)
    \/ \E i \in 1..Len(threads) : ReaderTimeout(i)
    \/ \E i \in 1..Len(threads), n \in 1..Len(stream) : Recv(i, n)

SpecFraming == Init /\ [][NextFraming]_vars

\* The bytes of the stream the listener has read: those the reads have taken
\* that connect() has not.
Read == SubSeq(served, Len(welcome) + 1, Len(served) - Len(stream))

\* C33: framing does not depend on how the byte stream is cut into reads:
\* whatever reads have returned the bytes read so far, the listener is still
\* running, the messages it has processed are the blocks of the undivided
\* bytes, each once and in order, and its buffer holds the incomplete block
\* after them.
C33_FramingIgnoresCuts ==
    \A i \in 1..Len(threads) :
        /\ threads[i].pc # "error"
        /\ processed = Blocks(DecodeUtf8(Read))
        /\ buffer = Remainder(DecodeUtf8(Read))

\* C34: events are applied in the order they are received, whatever that
\* order is: a Bridge event for the channel of a tracked call that is not
\* over and has had no Dial Answer event leaves the record connected with
\* the bridge time, and a Dial Answer event handled after it leaves the
\* record answered with the answer time and the bridge time it had.
C34_OutOfOrderApplied ==
    \A b \in HandlerEvents, d \in HandlerEvents, k \in Records :
        (/\ b.Event = "Bridge"
         /\ d.Event = "Dial" /\ d.SubEvent = "Answer"
         /\ d.Channel \in {b.Channel1, b.Channel2}
         /\ RecordOf(k, d.Channel)
         /\ \A j \in Records \ {k} :
               active_calls[j].channel \notin {b.Channel1, b.Channel2}
         /\ active_calls[k].status \in NonTerminal
         /\ active_calls[k].answer_time = NoTime)
        => LET bridged == ProcessedCalls(active_calls, b, now)
               answered == ProcessedCalls(bridged, d, now)
           IN  /\ bridged[k].status = "connected"
               /\ bridged[k].bridge_time = now
               /\ bridged[k].answer_time = NoTime
               /\ answered[k].status = "answered"
               /\ answered[k].answer_time = now
               /\ answered[k].bridge_time = now

\* C34 witness: the reader has handled a Bridge event for a call that has
\* had no Dial Answer event: the record is connected, has a bridge time and
\* has no answer time.
C34_Witness ==
    \E k \in Records :
        /\ active_calls[k].status = "connected"
        /\ active_calls[k].bridge_time # NoTime
        /\ active_calls[k].answer_time = NoTime

\* C35: the channel and the phone number of a record are fixed when the
\* record is created: no step of an event handler or an API operation
\* removes a record or changes its call ID, channel or phone number, and a
\* record a step adds has the call ID, the phone number and the
\* <tech>/<number> channel of the originate request that stored it.
C35_ChannelFixed ==
    [][/\ \A k \in 1..Len(active_calls) :
             /\ k <= Len(active_calls')
             /\ active_calls'[k].call_id = active_calls[k].call_id
             /\ active_calls'[k].channel = active_calls[k].channel
             /\ active_calls'[k].phone_number = active_calls[k].phone_number
       /\ \A n \in (Len(active_calls) + 1)..Len(active_calls') :
             \E t \in Originating, tech \in Techs :
                 /\ active_calls'[n].call_id = tasks[t].req.call_id
                 /\ active_calls'[n].phone_number = tasks[t].req.phone_number
                 /\ active_calls'[n].channel = tasks[t].req.channel
                 /\ active_calls'[n].channel =
                        ChannelName(tech, active_calls'[n].phone_number)]_vars

\* C35 witness: a record that events and an API operation have rewritten:
\* a Newchannel event gave it its unique ID, a Bridge event its bridge time,
\* and hangup_call marked it hung up.
C35_Witness ==
    \E k \in Records :
        /\ active_calls[k].unique_id # None
        /\ active_calls[k].bridge_time # NoTime
        /\ active_calls[k].status = "hung_up"
        /\ \E tech \in Techs :
              active_calls[k].channel = ChannelName(tech, active_calls[k].phone_number)

\* ------------------------------------------------------------- call IDs
\* Two callers that originate calls to one number, one after the other or
\* both at once, within a clock second and across seconds, and a server that
\* answers in any order.
NextIds ==
    \/ (socks = <<>> /\ ConnectBegin)
    \/ ConnectSocket("ok")
    \/ ConnectBanner("ok")
    \/ (~authenticated /\ Login("t1"))
    \/ \E t \in Tasks : Room(MaxCalls + 1) /\ OriginateCall(t, "1000", "SIP")
    \/ \E t \in Tasks : Resume(t)
    \/ Tick
    \/ \E i \in Threads : ReaderLoop(i)
    \/ \E i \in Threads, w \in wire, a \in ServerAnswers :
          ReaderResponse(i, w, a[1], a[2], <<>>, "recv")

SpecIds == Init /\ [][NextIds]_vars

\* C36: call IDs are unique: the call ID of an originate request that is
\* under way is not in the call table, so storing its record overwrites no
\* record, and no two requests under way have the same call ID, whether the
\* requests overlap or follow each other and whether or not they fall in the
\* same clock second.
C36_CallIdsUnique ==
    /\ \A t \in Originating : IndexOf(active_calls, tasks[t].req.call_id) = 0
    /\ \A t \in Originating, u \in Originating :
          t # u => tasks[t].req.call_id # tasks[u].req.call_id
    /\ \A j \in Records, k \in Records :
          j # k => active_calls[j].call_id # active_calls[k].call_id

\* C36 witness: the table holds two records whose call IDs were made in the
\* same clock second.
C36_Witness ==
    \E j \in Records, k \in Records, second \in 0..MaxTime :
        \E a \in 1..MaxActionId, b \in 1..MaxActionId :
            /\ j # k
            /\ active_calls[j].call_id = CallId(second, a)
            /\ active_calls[k].call_id = CallId(second, b)

\* ----------------------------------------------------- customer input
\* The value of the member of this name, ConversationState.<NAME>.value.
Value(name) == ValueOf(Member(name))

\* The keyword lists of _analyze_input_and_transition, lines 195-222, in the
\* order of the if/elif chain, are lists of words of refusal, interest,
\* appointment, price and time.  A text is the set of the lists it has a
\* word of.
Texts ==
    {{}, {"refusal"}, {"interest"}, {"appointment"}, {"price"}, {"time"},
     {"refusal", "interest"}, {"price", "time"}}
Emotions == {None, "neutral"}

\* What an analysis decides: the trigger to call (None: none), the string
\* to return, and whether the objection count goes up after the trigger.
Decision(trigger, result, objection) ==
    [trigger |-> trigger, result |-> result, objection |-> objection]

\* The default transitions, lines 228-248.
DefaultDecision(current_state) ==
    IF current_state = Value("OPENING")
    THEN Decision("customer_answered", "customer_answered", FALSE)
    ELSE IF current_state = Value("INTRODUCING")
    THEN Decision("introduction_done", "introduction_done", FALSE)
    ELSE IF current_state = Value("QUESTIONING")
    THEN Decision("interest_shown", "questioning_done", FALSE)
    ELSE IF current_state = Value("PRESENTING")
    THEN Decision("ready_to_close", "ready_to_close", FALSE)
    ELSE IF current_state = Value("HANDLING_OBJECTIONS")
    THEN Decision("objection_handled", "objection_handled", FALSE)
    ELSE IF current_state = Value("SCHEDULING")
    THEN Decision("appointment_scheduled", "appointment_scheduled", FALSE)
    ELSE Decision(None, "continue_conversation", FALSE)

\* _analyze_input_and_transition without the tests of the state in its
\* keyword branches: a text with a word of a list calls the first trigger
\* of the list's branch, whatever the state is.
AnalyzeUnguarded(current_state, text) ==
    IF "refusal" \in text
    THEN Decision("customer_not_interested", "objection_detected", FALSE)
    ELSE IF "interest" \in text
    THEN Decision("introduction_done", "introduction_accepted", FALSE)
    ELSE IF "appointment" \in text
    THEN Decision("appointment_requested", "appointment_interest", FALSE)
    ELSE IF "price" \in text
    THEN Decision("objection_raised", "price_objection", TRUE)
    ELSE IF "time" \in text
    THEN Decision("objection_raised", "time_objection", TRUE)
    ELSE DefaultDecision(current_state)

\* _analyze_input_and_transition, lines 189-248, up to the trigger call:
\* the first keyword list the text has a word of selects the branch; a
\* branch whose state tests fail falls through to the defaults.
\* current_state is what self.state holds, a member of the Enum (line 192);
\* it is compared with the members' values.
AnalyzeInput(current_state, text) ==
    IF "refusal" \in text
    THEN IF current_state \in {Value("INTRODUCING"), Value("QUESTIONING")}
         THEN Decision("customer_not_interested", "objection_detected", FALSE)
         ELSE IF current_state = Value("CLOSING")
         THEN Decision("customer_not_interested", "closing_rejected", FALSE)
         ELSE DefaultDecision(current_state)
    ELSE IF "interest" \in text
    THEN IF current_state = Value("INTRODUCING")
         THEN Decision("introduction_done", "introduction_accepted", FALSE)
         ELSE IF current_state = Value("QUESTIONING")
         THEN Decision("interest_shown", "interest_detected", FALSE)
         ELSE DefaultDecision(current_state)
    ELSE IF "appointment" \in text
    THEN IF current_state \in {Value("PRESENTING"), Value("CLOSING")}
         THEN Decision("appointment_requested", "appointment_interest", FALSE)
         ELSE DefaultDecision(current_state)
    ELSE IF "price" \in text
    THEN IF current_state \in {Value("PRESENTING"), Value("QUESTIONING")}
         THEN Decision("objection_raised", "price_objection", TRUE)
         ELSE DefaultDecision(current_state)
    ELSE IF "time" \in text
    THEN IF current_state \in {Value("INTRODUCING"), Value("QUESTIONING")}
         THEN Decision("objection_raised", "time_objection", TRUE)
         ELSE DefaultDecision(current_state)
    ELSE DefaultDecision(current_state)

\* process_customer_input(text, emotion), lines 181-248: the turn is added
\* to the history, the emotion is stored, and the analysis calls the trigger
\* it decided on.  When the trigger raises, the exception leaves the
\* function: nothing is returned and the objection count stays.
ProcessCustomerInput(text, emotion) ==
    /\ Len(results) < MaxTriggered
    /\ LET decision == AnalyzeInput(state, text)
           after == IF decision.trigger = None
                    THEN [state |-> state, raised |-> "none"]
                    ELSE Fire(state, decision.trigger)
       IN  /\ state' = after.state
           /\ triggered' = IF decision.trigger = None THEN triggered
                           ELSE Append(triggered,
                                  [trigger |-> decision.trigger, source |-> state,
                                   dest |-> after.state, raised |-> after.raised])
           /\ context' =
                 [conversation_history |->
                      Append(context.conversation_history,
                             [speaker |-> "customer", text |-> text, emotion |-> emotion]),
                  customer_emotion |-> emotion,
                  objections_count |->
                      IF decision.objection /\ after.raised = "none"
                      THEN context.objections_count + 1
                      ELSE context.objections_count]
           /\ results' = Append(results,
                            [text |-> text, state |-> state,
                             trigger |-> decision.trigger, raised |-> after.raised,
                             result |-> IF after.raised = "none" THEN decision.result
                                        ELSE None])
    /\ UNCHANGED <<managerVars, providerVars, streamVars>>

\* A state machine that gets one trigger call, or none (a trigger of the
\* table that leaves the initial state, one that leaves another state, a
\* universal one and one of _register_state_callbacks), and then customer
\* input, with conversations started at any time and a turn of the agent
\* added to a context that has none yet.
NextInput ==
    \/ \E trigger \in {"start_call", "customer_answered", "call_ended", "enter_opening"} :
          triggered = <<>> /\ results = <<>> /\ TriggerCall(trigger)
    \/ StartConversation
    \/ AddTurn("agent", {}, None)
    \/ \E text \in Texts, emotion \in Emotions : ProcessCustomerInput(text, emotion)

SpecInput == Init /\ [][NextInput]_vars

\* C37: process_customer_input calls no trigger that has no transition from
\* the current state: in every call made so far, whatever the state and the
\* text were, the trigger the call fired, if any, is one the machine has a
\* transition for from the state it was in, and the call raised nothing and
\* returned a result string.
C37_TriggersDefined ==
    \A k \in 1..Len(results) :
        /\ results[k].trigger # None
           => Leaving(NameOf(results[k].state), results[k].trigger) # {}
        /\ results[k].raised = "none"
        /\ results[k].result # None

\* C37 witness: after a conversation was started, process_customer_input was
\* called with a text of each keyword list and with one of none, and
\* returned a result string each time.
C37_Witness ==
    /\ triggered # <<>>
    /\ \E j \in 1..Len(results), k \in 1..Len(results) :
          /\ results[j].text = {"refusal"}
          /\ results[k].text = {"price", "time"}
          /\ results[j].result # None
          /\ results[k].result # None

\* C38: the universal transitions hold from every state: a call of
\* call_failed leaves the machine in the failed state and a call of
\* call_ended leaves it in the ending state, whatever the state was.
C38_UniversalTransitions ==
    \A k \in 1..Len(triggered) :
        /\ triggered[k].trigger = "call_failed" => ValueOf(triggered[k].dest) = "failed"
        /\ triggered[k].trigger = "call_ended" => ValueOf(triggered[k].dest) = "ending"

====
